---- MODULE Spec2Model ----
(***************************************************************************)
(* A model of the vanilla-to-do-list application: the Collection Store     *)
(* (VanillaToDoListsModel), the single-List Store (VanillaToDoListModel),  *)
(* the browser's localStorage they share, the millisecond clock the ids    *)
(* and timestamps are drawn from, and the delayed (setTimeout) intents and *)
(* the router that create and abandon Store instances.                     *)
(*                                                                         *)
(* Two specifications are given.  Spec drives one Store instance at a time *)
(* through its public operations with arbitrary arguments (the Store       *)
(* contract).  SpecApp drives the Stores through the views' input handlers *)
(* only: clicks on rendered rows, delayed callbacks, route changes.        *)
(***************************************************************************)
EXTENDS Integers, Sequences, FiniteSets, TLC

(***************************************************************************)
(* Bounds of the model.                                                    *)
(***************************************************************************)
MaxClock == 3
MaxLists == 2
MaxItems == 2

(***************************************************************************)
(* JavaScript values.                                                      *)
(*   - a Date is its millisecond count (a positive integer);               *)
(*   - Date.toJSON() gives an ISO string, modelled as the 1-tuple <<ms>>,  *)
(*     so that a timestamp string is never equal to a number or to null;   *)
(*   - null is the empty tuple;                                            *)
(*   - an undefined property is a key that is absent from the record,      *)
(*     which is also what JSON.stringify turns an undefined value into.    *)
(***************************************************************************)
null == << >>

getTime(date) == date

toJSON(date) == << date >>

\* Number("abc"), the result of +id for a non-numeric id attribute.
NaN == -1

\* Element.getAttribute('id') of an element without the attribute (null).
NoAttribute == -2

\* An id attribute that holds no numeral, e.g. "abc".
NonNumeric == -3

\* The unary plus of `+id`: +null is 0, +"abc" is NaN, +"12" is 12.
ToNumber(id) ==
    IF id = NoAttribute THEN 0
    ELSE IF id = NonNumeric THEN NaN
    ELSE id

\* a === b on numbers: NaN equals nothing, itself included.
StrictEquals(a, b) == a # NaN /\ b # NaN /\ a = b

\* record.done === true, record.done === false, !record.done
DoneIsTrue(r) == "done" \in DOMAIN r /\ r.done = TRUE

DoneIsFalse(r) == "done" \in DOMAIN r /\ r.done = FALSE

NotDone(r) == IF "done" \in DOMAIN r THEN ~r.done ELSE TRUE

\* obj.key = value, creating the property when it is missing.
Assign(obj, key, value) ==
    [k \in DOMAIN obj \cup {key} |-> IF k = key THEN value ELSE obj[k]]

\* Array.prototype.map and Array.prototype.filter.
Map(array, f(_)) == [i \in 1..Len(array) |-> f(array[i])]

Filter(array, keep(_)) == SelectSeq(array, keep)

\* Array.prototype.findIndex, counted from 1; 0 when no element passes.
FirstIndex(array, test(_)) ==
    LET hits == {i \in 1..Len(array) : test(array[i])}
    IN  IF hits = {} THEN 0 ELSE CHOOSE i \in hits : \A j \in hits : i <= j

(***************************************************************************)
(* localStorage: a function from the keys that are set to their strings.   *)
(* JSON.stringify gives a string, modelled as the record [json |-> value]; *)
(* JSON.parse(null) is null, and `|| []` replaces it by the empty array.   *)
(***************************************************************************)
stringify(value) == [json |-> value]

parse(string) == string.json

getItem(storage, key) == IF key \in DOMAIN storage THEN storage[key] ELSE null

hasItem(storage, key) == key \in DOMAIN storage

setItem(storage, key, string) ==
    [k \in DOMAIN storage \cup {key} |-> IF k = key THEN string ELSE storage[k]]

\* JSON.parse(localStorage.getItem('toDoLists')) || []
loadToDoLists(storage) ==
    IF ~hasItem(storage, "toDoLists") THEN << >>
    ELSE parse(getItem(storage, "toDoLists"))

VARIABLES
    localStorage,   \* the browser's localStorage
    now,            \* the millisecond clock read by new Date()
    stores,         \* the live Store instances; the last is the mounted one
    views,          \* views[s]: the DOM of the view wired to stores[s]
    hash,           \* window.location.hash
    timers,         \* the pending setTimeout callbacks, in firing order
    log             \* the call last made on a Store and its effects, in order

vars == << localStorage, now, stores, views, hash, timers, log >>

(***************************************************************************)
(* The effects of a handler, in the order the code performs them: `ls` is  *)
(* localStorage as the handler leaves it, `log` the sequence of its        *)
(* setItem writes and change notifications.                                *)
(***************************************************************************)
Effects(storage, call) == [ls |-> storage, log |-> << call >>]

Written(fx, string) ==
    [ls  |-> setItem(fx.ls, "toDoLists", string),
     log |-> Append(fx.log, [ev |-> "setItem", value |-> string])]

Notified(fx, payload) ==
    [fx EXCEPT !.log = Append(@, [ev |-> "changed", payload |-> payload,
                                  ls |-> fx.ls])]

(***************************************************************************)
(* VanillaToDoListsModel: the Collection Store.                            *)
(***************************************************************************)
VanillaToDoListsModel(storage) ==
    [kind |-> "lists", toDoLists |-> loadToDoLists(storage)]

ListsStore(fx, toDoLists) == Written(fx, stringify(toDoLists))

ListsUpdateView(fx, toDoLists) == Notified(fx, toDoLists)

\* Mutant of ListsDone: the view is notified before the Collection is stored.
ListsDoneNotifiedFirst(m, fx) ==
    [m |-> m, fx |-> ListsStore(ListsUpdateView(fx, m.toDoLists), m.toDoLists)]

\* The tail shared by every operation: #store, then #updateView.
ListsDone(m, fx) ==
    [m |-> m, fx |-> ListsUpdateView(ListsStore(fx, m.toDoLists), m.toDoLists)]

\* Mutant of createToDoList: the new List is put first (unshift for push).
createToDoListUnshift(m, fx, toDoListName, date) ==
    LET toDoList == [id          |-> getTime(date),
                     created     |-> toJSON(date),
                     lastRenamed |-> null,
                     lastUpdated |-> null,
                     name        |-> toDoListName,
                     done        |-> FALSE,
                     items       |-> << >>]
    IN  ListsDone([m EXCEPT !.toDoLists = << toDoList >> \o @], fx)

\* createToDoList with a slip: an id already carried by a List is replaced
\* by the next free number.
createToDoListFresh(m, fx, toDoListName, date) ==
    LET taken == {m.toDoLists[i].id : i \in 1..Len(m.toDoLists)}
        free == CHOOSE n \in getTime(date)..(getTime(date) + Len(m.toDoLists)) :
                    /\ n \notin taken
                    /\ \A k \in getTime(date)..(n - 1) : k \in taken
        toDoList == [id          |-> free,
                     created     |-> toJSON(date),
                     lastRenamed |-> null,
                     lastUpdated |-> null,
                     name        |-> toDoListName,
                     done        |-> FALSE,
                     items       |-> << >>]
    IN  ListsDone([m EXCEPT !.toDoLists = Append(@, toDoList)], fx)

createToDoList(m, fx, toDoListName, date) ==
    LET toDoList == [id          |-> getTime(date),
                     created     |-> toJSON(date),
                     lastRenamed |-> null,
                     lastUpdated |-> null,
                     name        |-> toDoListName,
                     done        |-> FALSE,
                     items       |-> << >>]
    IN  ListsDone([m EXCEPT !.toDoLists = Append(@, toDoList)], fx)

\* Mutant of updateToDoList: a rename also sets lastUpdated.
updateToDoListTouched(m, fx, id, toDoListNameNew, date) ==
    LET rename(toDoList) ==
            IF StrictEquals(toDoList.id, id)
            THEN Assign(Assign(Assign(toDoList, "lastRenamed", toJSON(date)),
                               "lastUpdated", toJSON(date)),
                        "name", toDoListNameNew)
            ELSE toDoList
    IN  ListsDone([m EXCEPT !.toDoLists = Map(@, rename)], fx)

updateToDoList(m, fx, id, toDoListNameNew, date) ==
    LET rename(toDoList) ==
            IF StrictEquals(toDoList.id, id)
            THEN Assign(Assign(toDoList, "lastRenamed", toJSON(date)),
                        "name", toDoListNameNew)
            ELSE toDoList
    IN  ListsDone([m EXCEPT !.toDoLists = Map(@, rename)], fx)

\* Mutant of deleteToDoList: only the first List with the id is removed.
deleteToDoListFirst(m, fx, id) ==
    LET found(toDoList) == StrictEquals(toDoList.id, id)
        index == FirstIndex(m.toDoLists, found)
    IN  ListsDone([m EXCEPT !.toDoLists =
                      IF index = 0 THEN @
                      ELSE SubSeq(@, 1, index - 1) \o SubSeq(@, index + 1, Len(@))],
                  fx)

\* Mutant of deleteToDoList: splice(findIndex(...), 1), which removes the
\* last List when the index is -1.
deleteToDoListSplice(m, fx, id) ==
    LET found(toDoList) == StrictEquals(toDoList.id, id)
        index == FirstIndex(m.toDoLists, found)
        keep(toDoList) == ~found(toDoList)
    IN  ListsDone([m EXCEPT !.toDoLists =
                      IF index = 0 THEN SubSeq(@, 1, Len(@) - 1)
                      ELSE Filter(@, keep)],
                  fx)

deleteToDoList(m, fx, id) ==
    LET keep(toDoList) == ~StrictEquals(toDoList.id, id)
    IN  ListsDone([m EXCEPT !.toDoLists = Filter(@, keep)], fx)

\* Mutant of toggleToDoList: the toggled List also loses its lastRenamed.
toggleToDoListReset(m, fx, id) ==
    LET toggle(toDoList) ==
            IF StrictEquals(toDoList.id, id)
            THEN Assign(Assign(toDoList, "done", NotDone(toDoList)),
                        "lastRenamed", null)
            ELSE toDoList
    IN  ListsDone([m EXCEPT !.toDoLists = Map(@, toggle)], fx)

\* toggleToDoList with a slip: the toggled Lists are moved to the end of the
\* Collection.
toggleToDoListMoved(m, fx, id) ==
    LET found(toDoList) == StrictEquals(toDoList.id, id)
        other(toDoList) == ~found(toDoList)
        toggle(toDoList) == Assign(toDoList, "done", NotDone(toDoList))
    IN  ListsDone([m EXCEPT !.toDoLists =
                      Filter(@, other) \o Map(Filter(@, found), toggle)], fx)

\* toggleToDoList with a slip: only the first List carrying the id is
\* toggled (find for map).
toggleToDoListFirst(m, fx, id) ==
    LET found(toDoList) == StrictEquals(toDoList.id, id)
        index == FirstIndex(m.toDoLists, found)
    IN  ListsDone([m EXCEPT !.toDoLists =
                      IF index = 0 THEN @
                      ELSE [@ EXCEPT ![index] = Assign(@, "done", NotDone(@))]],
                  fx)

\* toggleToDoList with a slip: when no List carries the id, a List with the
\* id is put into the Collection, done.
toggleToDoListUpsert(m, fx, id) ==
    LET found(toDoList) == StrictEquals(toDoList.id, id)
        toggle(toDoList) ==
            IF found(toDoList)
            THEN Assign(toDoList, "done", NotDone(toDoList))
            ELSE toDoList
        toDoList == [id          |-> id,
                     created     |-> null,
                     lastRenamed |-> null,
                     lastUpdated |-> null,
                     name        |-> "",
                     done        |-> TRUE,
                     items       |-> << >>]
    IN  ListsDone([m EXCEPT !.toDoLists =
                      IF FirstIndex(@, found) = 0 THEN Append(@, toDoList)
                      ELSE Map(@, toggle)],
                  fx)

toggleToDoList(m, fx, id) ==
    LET toggle(toDoList) ==
            IF StrictEquals(toDoList.id, id)
            THEN Assign(toDoList, "done", NotDone(toDoList))
            ELSE toDoList
    IN  ListsDone([m EXCEPT !.toDoLists = Map(@, toggle)], fx)

\* Mutant of toggleAllToDoLists: every List is set to done.
toggleAllToDoListsSet(m, fx) ==
    LET toggle(toDoList) == Assign(toDoList, "done", TRUE)
    IN  ListsDone([m EXCEPT !.toDoLists = Map(@, toggle)], fx)

\* toggleAllToDoLists with a slip: the last List, the one created last, is
\* left as it is.
toggleAllToDoListsButLast(m, fx) ==
    LET toggle(toDoList) == Assign(toDoList, "done", NotDone(toDoList))
    IN  ListsDone([m EXCEPT !.toDoLists =
                      [i \in 1..Len(@) |->
                          IF i < Len(@) THEN toggle(@[i]) ELSE @[i]]], fx)

toggleAllToDoLists(m, fx) ==
    LET toggle(toDoList) == Assign(toDoList, "done", NotDone(toDoList))
    IN  ListsDone([m EXCEPT !.toDoLists = Map(@, toggle)], fx)

\* clearToDoLists with a slip: only the first done List is removed.
clearToDoListsFirst(m, fx) ==
    LET done(toDoList) == ~DoneIsFalse(toDoList)
        i == FirstIndex(m.toDoLists, done)
    IN  ListsDone([m EXCEPT !.toDoLists =
                      IF i = 0 THEN m.toDoLists
                      ELSE SubSeq(m.toDoLists, 1, i - 1)
                           \o SubSeq(m.toDoLists, i + 1, Len(m.toDoLists))],
                  fx)

\* clearToDoLists with a slip: only the Lists whose done is true are removed.
clearToDoListsTrue(m, fx) ==
    LET notTrue(toDoList) == ~DoneIsTrue(toDoList)
    IN  ListsDone([m EXCEPT !.toDoLists = Filter(m.toDoLists, notTrue)], fx)

clearToDoLists(m, fx) ==
    ListsDone([m EXCEPT !.toDoLists = Filter(@, DoneIsFalse)], fx)

(***************************************************************************)
(* VanillaToDoListModel: the single-List Store.  this.toDoList is a        *)
(* reference to the first List of this.toDoLists with the given id (`ref`  *)
(* is its index), or, when there is none, an object of its own that no     *)
(* List of the Collection refers to (`orphan`, with ref = 0).              *)
(***************************************************************************)
\* The constructor with a slip: when no List carries the id, the first List
\* of the Collection is taken.
VanillaToDoListModelFirst(storage, id) ==
    LET toDoListId == ToNumber(id)
        loaded == loadToDoLists(storage)
        found(toDoList) == StrictEquals(toDoList.id, toDoListId)
        hit == FirstIndex(loaded, found)
        ref == IF hit = 0 /\ Len(loaded) > 0 THEN 1 ELSE hit
        toDoLists ==
            IF ref > 0 /\ "items" \notin DOMAIN loaded[ref]
            THEN [loaded EXCEPT ![ref] = Assign(@, "items", << >>)]
            ELSE loaded
    IN  [kind       |-> "list",
         toDoListId |-> toDoListId,
         toDoLists  |-> toDoLists,
         ref        |-> ref,
         orphan     |-> [items |-> << >>]]

VanillaToDoListModel(storage, id) ==
    LET toDoListId == ToNumber(id)
        loaded == loadToDoLists(storage)
        found(toDoList) == StrictEquals(toDoList.id, toDoListId)
        ref == FirstIndex(loaded, found)
        \* this.toDoList.items = this.toDoList.items || []
        toDoLists ==
            IF ref > 0 /\ "items" \notin DOMAIN loaded[ref]
            THEN [loaded EXCEPT ![ref] = Assign(@, "items", << >>)]
            ELSE loaded
    IN  [kind       |-> "list",
         toDoListId |-> toDoListId,
         toDoLists  |-> toDoLists,
         ref        |-> ref,
         orphan     |-> [items |-> << >>]]

\* this.toDoList
toDoListOf(m) == IF m.ref > 0 THEN m.toDoLists[m.ref] ELSE m.orphan

\* this.toDoList.items = items
WithItems(m, items) ==
    IF m.ref > 0
    THEN [m EXCEPT !.toDoLists[m.ref] = Assign(@, "items", items)]
    ELSE [m EXCEPT !.orphan = Assign(@, "items", items)]

\* Mutant of ListStore: the Collection is written as it was before the map.
ListStoreBeforeMap(m, fx, date) ==
    LET toDoListChanged == toDoListOf(m)
        touch(toDoList) ==
            IF StrictEquals(toDoList.id, m.toDoListId)
            THEN Assign(Assign(toDoList, "lastUpdated", toJSON(date)),
                        "items", toDoListChanged.items)
            ELSE toDoList
        m1 == [m EXCEPT !.toDoLists = Map(@, touch)]
    IN  [m |-> m1, fx |-> Written(fx, stringify(m.toDoLists))]

\* ListStore with a slip: only the List the Store found at construction is
\* touched, not every List carrying the Store's id.
ListStoreFound(m, fx, date) ==
    LET toDoListChanged == toDoListOf(m)
        m1 == IF m.ref > 0
              THEN [m EXCEPT !.toDoLists[m.ref] =
                       Assign(Assign(@, "lastUpdated", toJSON(date)),
                              "items", toDoListChanged.items)]
              ELSE m
    IN  [m |-> m1, fx |-> Written(fx, stringify(m1.toDoLists))]

\* ListStore with a slip: a changed List that no List of the Collection
\* matches is appended to the Collection.
ListStoreAppended(m, fx, date) ==
    LET toDoListChanged == toDoListOf(m)
        touch(toDoList) ==
            IF StrictEquals(toDoList.id, m.toDoListId)
            THEN Assign(Assign(toDoList, "lastUpdated", toJSON(date)),
                        "items", toDoListChanged.items)
            ELSE toDoList
        m1 == IF m.ref > 0
              THEN [m EXCEPT !.toDoLists = Map(@, touch)]
              ELSE [m EXCEPT !.toDoLists = Append(@, toDoListChanged)]
    IN  [m |-> m1, fx |-> Written(fx, stringify(m1.toDoLists))]

ListStore(m, fx, date) ==
    LET toDoListChanged == toDoListOf(m)
        touch(toDoList) ==
            IF StrictEquals(toDoList.id, m.toDoListId)
            THEN Assign(Assign(toDoList, "lastUpdated", toJSON(date)),
                        "items", toDoListChanged.items)
            ELSE toDoList
        m1 == [m EXCEPT !.toDoLists = Map(@, touch)]
    IN  [m |-> m1, fx |-> Written(fx, stringify(m1.toDoLists))]

ListUpdateView(fx, toDoList) == Notified(fx, toDoList)

\* The tail shared by every operation: #store, then #updateView.
ListDone(m, fx, date) ==
    LET stored == ListStore(m, fx, date)
    IN  [m |-> stored.m, fx |-> ListUpdateView(stored.fx, toDoListOf(stored.m))]

\* createToDoListItem with a slip: the new Item is given no done.
createToDoListItemBare(m, fx, toDoListItemText, date, dateStored) ==
    LET toDoListItem == [id          |-> getTime(date),
                         created     |-> toJSON(date),
                         lastUpdated |-> null,
                         text        |-> toDoListItemText]
    IN  ListDone(WithItems(m, Append(toDoListOf(m).items, toDoListItem)),
                 fx, dateStored)

\* createToDoListItem with a slip: a Store that found no List keeps no Item.
createToDoListItemGuarded(m, fx, toDoListItemText, date, dateStored) ==
    LET toDoListItem == [id          |-> getTime(date),
                         created     |-> toJSON(date),
                         lastUpdated |-> null,
                         text        |-> toDoListItemText,
                         done        |-> FALSE]
    IN  IF m.ref = 0 THEN ListDone(m, fx, dateStored)
        ELSE ListDone(WithItems(m, Append(toDoListOf(m).items, toDoListItem)),
                      fx, dateStored)

createToDoListItem(m, fx, toDoListItemText, date, dateStored) ==
    LET toDoListItem == [id          |-> getTime(date),
                         created     |-> toJSON(date),
                         lastUpdated |-> null,
                         text        |-> toDoListItemText,
                         done        |-> FALSE]
    IN  ListDone(WithItems(m, Append(toDoListOf(m).items, toDoListItem)),
                 fx, dateStored)

updateToDoListItem(m, fx, id, toDoListItemTextNew, date, dateStored) ==
    LET update(toDoListItem) ==
            IF StrictEquals(toDoListItem.id, id)
            THEN Assign(Assign(toDoListItem, "lastUpdated", toJSON(date)),
                        "text", toDoListItemTextNew)
            ELSE toDoListItem
    IN  ListDone(WithItems(m, Map(toDoListOf(m).items, update)), fx, dateStored)

\* Mutant of deleteToDoListItem: splice(findIndex(...), 1), which removes
\* the last Item when the index is -1.
deleteToDoListItemSplice(m, fx, id, dateStored) ==
    LET found(toDoListItem) == StrictEquals(toDoListItem.id, id)
        keep(toDoListItem) == ~found(toDoListItem)
        items == toDoListOf(m).items
    IN  ListDone(WithItems(m, IF FirstIndex(items, found) = 0
                              THEN SubSeq(items, 1, Len(items) - 1)
                              ELSE Filter(items, keep)),
                 fx, dateStored)

deleteToDoListItem(m, fx, id, dateStored) ==
    LET keep(toDoListItem) == ~StrictEquals(toDoListItem.id, id)
    IN  ListDone(WithItems(m, Filter(toDoListOf(m).items, keep)), fx, dateStored)

\* toggleToDoListItem with a slip: the toggled Item gets a lastUpdated.
toggleToDoListItemTouched(m, fx, id, dateStored) ==
    LET toggle(toDoListItem) ==
            IF StrictEquals(toDoListItem.id, id)
            THEN Assign(Assign(toDoListItem, "done", NotDone(toDoListItem)),
                        "lastUpdated", toJSON(dateStored))
            ELSE toDoListItem
    IN  ListDone(WithItems(m, Map(toDoListOf(m).items, toggle)), fx, dateStored)

toggleToDoListItem(m, fx, id, dateStored) ==
    LET toggle(toDoListItem) ==
            IF StrictEquals(toDoListItem.id, id)
            THEN Assign(toDoListItem, "done", NotDone(toDoListItem))
            ELSE toDoListItem
    IN  ListDone(WithItems(m, Map(toDoListOf(m).items, toggle)), fx, dateStored)

\* toggleAllToDoListItems with a slip: the parent List is marked done along
\* with its Items.
toggleAllToDoListItemsDerived(m, fx, dateStored) ==
    LET toggle(toDoListItem) ==
            Assign(toDoListItem, "done", NotDone(toDoListItem))
        toggled == WithItems(m, Map(toDoListOf(m).items, toggle))
        derived == IF m.ref > 0
                   THEN [toggled EXCEPT !.toDoLists[m.ref] =
                            Assign(@, "done", TRUE)]
                   ELSE toggled
    IN  ListDone(derived, fx, dateStored)

toggleAllToDoListItems(m, fx, dateStored) ==
    LET toggle(toDoListItem) ==
            Assign(toDoListItem, "done", NotDone(toDoListItem))
    IN  ListDone(WithItems(m, Map(toDoListOf(m).items, toggle)), fx, dateStored)

clearToDoList(m, fx, dateStored) ==
    ListDone(WithItems(m, Filter(toDoListOf(m).items, DoneIsFalse)),
             fx, dateStored)

(***************************************************************************)
(* The views.  A DOM is the part of the shadow tree the handlers read or   *)
(* write: the rendered rows, the placeholder paragraph, the footer, the    *)
(* summary, the clear button and the confirmation.  A control is           *)
(* represented by the number of click listeners added to it: `select`,     *)
(* `edit`, `delete` and `link` of a row for its checkbox, its two buttons  *)
(* and its link, `yes` and `no` of the DOM for the buttons of the          *)
(* confirmation.  A row is a new element with every render; the            *)
(* confirmation and its buttons are those of the template for as long as   *)
(* the view lives.                                                         *)
(***************************************************************************)
Hashes == {"", "#all", "#pending", "#done"}

Template ==
    [rows               |-> << >>,
     message            |-> "none",
     footerHidden       |-> TRUE,
     count              |-> << >>,
     clearHidden        |-> TRUE,
     confirmationHidden |-> TRUE,
     selected           |-> "#all",
     yes                |-> 0,
     no                 |-> 0]

\* The selectors of the elements of the template that carry an id, the
\* same in both views.  The rows carry their record's id, a number, and
\* no selector of the form #number is valid.
TemplateIds ==
    {"#first-o", "#second-o", "#toggle-all", "#count", "#all", "#pending",
     "#done", "#clear", "#confirmation", "#yes", "#no"}

\* nodeSectionContainer.querySelector(windowLocationHash) returns an
\* element; otherwise it returns null or throws, and render throws at
\* `.classList` or there, after the rows, the summary and the footer were
\* built and the class `selected` was removed from every filter link.
querySelectorFinds(windowLocationHash) == windowLocationHash \in TemplateIds

\* The element that carries the class `selected` when render returns or
\* throws.
Selected(windowLocationHash) ==
    IF querySelectorFinds(windowLocationHash) THEN windowLocationHash
    ELSE "none"

DoneIsNotTrue(r) == ~DoneIsTrue(r)

DoneIsNotFalse(r) == ~DoneIsFalse(r)

\* nodeCount.textContent = `${all} (${pending}/${done})`
SummaryText(count) ==
    ToString(count[1]) \o " (" \o ToString(count[2]) \o "/"
        \o ToString(count[3]) \o ")"

\* RenderArray with a slip: the summary counts the displayed subset.
RenderArrayDisplayed(dom, array, windowLocationHash, label) ==
    LET pending == Filter(array, DoneIsNotTrue)
        done == Filter(array, DoneIsNotFalse)
        shown == IF windowLocationHash = "#pending" THEN pending
                 ELSE IF windowLocationHash = "#done" THEN done
                 ELSE array
        row(r) == [id    |-> r.id,
                   class |-> IF DoneIsFalse(r) THEN "pending" ELSE "done",
                   text  |-> r[label],
                   select |-> 0, edit |-> 0, delete |-> 0, link |-> 0]
    IN  [dom EXCEPT !.rows = Map(shown, row),
                    !.message = "none",
                    !.footerHidden = FALSE,
                    !.count = << Len(shown),
                                 Len(Filter(shown, DoneIsNotTrue)),
                                 Len(Filter(shown, DoneIsNotFalse)) >>,
                    !.clearHidden = (Len(done) = 0),
                    !.confirmationHidden = TRUE,
                    !.selected = Selected(windowLocationHash)]

\* RenderArray with a slip: the done records are those whose done is true,
\* so that pending and done partition the array.
RenderArrayPartitioned(dom, array, windowLocationHash, label) ==
    LET pending == Filter(array, DoneIsNotTrue)
        done == Filter(array, DoneIsTrue)
        shown == IF windowLocationHash = "#pending" THEN pending
                 ELSE IF windowLocationHash = "#done" THEN done
                 ELSE array
        row(r) == [id    |-> r.id,
                   class |-> IF DoneIsFalse(r) THEN "pending" ELSE "done",
                   text  |-> r[label],
                   select |-> 0, edit |-> 0, delete |-> 0, link |-> 0]
    IN  [dom EXCEPT !.rows = Map(shown, row),
                    !.message = "none",
                    !.footerHidden = FALSE,
                    !.count = << Len(array), Len(pending), Len(done) >>,
                    !.clearHidden = (Len(done) = 0),
                    !.confirmationHidden = TRUE,
                    !.selected = Selected(windowLocationHash)]

\* RenderArray with a slip: the clear button follows the done records among
\* the displayed ones.
RenderArrayClearDisplayed(dom, array, windowLocationHash, label) ==
    LET pending == Filter(array, DoneIsNotTrue)
        done == Filter(array, DoneIsNotFalse)
        shown == IF windowLocationHash = "#pending" THEN pending
                 ELSE IF windowLocationHash = "#done" THEN done
                 ELSE array
        row(r) == [id    |-> r.id,
                   class |-> IF DoneIsFalse(r) THEN "pending" ELSE "done",
                   text  |-> r[label],
                   select |-> 0, edit |-> 0, delete |-> 0, link |-> 0]
    IN  [dom EXCEPT !.rows = Map(shown, row),
                    !.message = "none",
                    !.footerHidden = FALSE,
                    !.count = << Len(array), Len(pending), Len(done) >>,
                    !.clearHidden = (Len(Filter(shown, DoneIsTrue)) = 0),
                    !.confirmationHidden = TRUE,
                    !.selected = Selected(windowLocationHash)]

\* RenderArray with a slip: the confirmation is left as it is.
RenderArrayAwaiting(dom, array, windowLocationHash, label) ==
    LET pending == Filter(array, DoneIsNotTrue)
        done == Filter(array, DoneIsNotFalse)
        shown == IF windowLocationHash = "#pending" THEN pending
                 ELSE IF windowLocationHash = "#done" THEN done
                 ELSE array
        row(r) == [id    |-> r.id,
                   class |-> IF DoneIsFalse(r) THEN "pending" ELSE "done",
                   text  |-> r[label],
                   select |-> 0, edit |-> 0, delete |-> 0, link |-> 0]
    IN  [dom EXCEPT !.rows = Map(shown, row),
                    !.message = "none",
                    !.footerHidden = FALSE,
                    !.count = << Len(array), Len(pending), Len(done) >>,
                    !.clearHidden = (Len(done) = 0),
                    !.selected = Selected(windowLocationHash)]

\* The rows, summary and clear button both render methods build from a
\* non-empty array; `label` is the property shown as the row's text.
RenderArray(dom, array, windowLocationHash, label) ==
    LET pending == Filter(array, DoneIsNotTrue)
        done == Filter(array, DoneIsNotFalse)
        shown == IF windowLocationHash = "#pending" THEN pending
                 ELSE IF windowLocationHash = "#done" THEN done
                 ELSE array
        row(r) == [id    |-> r.id,
                   class |-> IF DoneIsFalse(r) THEN "pending" ELSE "done",
                   text  |-> r[label],
                   select |-> 0, edit |-> 0, delete |-> 0, link |-> 0]
    IN  [dom EXCEPT !.rows = Map(shown, row),
                    !.message = "none",
                    !.footerHidden = FALSE,
                    !.count = << Len(array), Len(pending), Len(done) >>,
                    !.clearHidden = (Len(done) = 0),
                    !.confirmationHidden = TRUE,
                    !.selected = Selected(windowLocationHash)]

\* VanillaToDoListsView.render
RenderToDoLists(dom, toDoLists, locationHash) ==
    LET windowLocationHash == IF locationHash = "" THEN "#all" ELSE locationHash
    IN  IF Len(toDoLists) > 0
        THEN RenderArray(dom, toDoLists, windowLocationHash, "name")
        ELSE [dom EXCEPT !.rows = << >>,
                         !.message = "There are no to-do lists to show!",
                         !.footerHidden = TRUE,
                         !.selected = Selected(windowLocationHash)]

\* VanillaToDoListView.render with a slip: the placeholder is shown when the
\* displayed subset is empty.
RenderToDoListDisplayed(dom, toDoList, locationHash) ==
    LET windowLocationHash == IF locationHash = "" THEN "#all" ELSE locationHash
        rendered == RenderArray(dom, toDoList.items, windowLocationHash, "text")
    IN  IF Len(toDoList.items) > 0 /\ Len(rendered.rows) > 0
        THEN rendered
        ELSE [dom EXCEPT !.rows = << >>,
                         !.message = IF "id" \in DOMAIN toDoList
                                     THEN "Good for you: There's nothing to do!"
                                     ELSE "Invalid ID! Your entries won't be stored!",
                         !.footerHidden = TRUE,
                         !.selected = Selected(windowLocationHash)]

\* VanillaToDoListView.render
RenderToDoList(dom, toDoList, locationHash) ==
    LET windowLocationHash == IF locationHash = "" THEN "#all" ELSE locationHash
    IN  IF Len(toDoList.items) > 0
        THEN RenderArray(dom, toDoList.items, windowLocationHash, "text")
        ELSE [dom EXCEPT !.rows = << >>,
                         !.message = IF "id" \in DOMAIN toDoList
                                     THEN "Good for you: There's nothing to do!"
                                     ELSE "Invalid ID! Your entries won't be stored!",
                         !.footerHidden = TRUE,
                         !.selected = Selected(windowLocationHash)]

\* querySelectorAll(control).forEach(node => node.addEventListener('click',
\* ...)): every row's control gets one more listener.
addEventListener(dom, control) ==
    [dom EXCEPT !.rows = [i \in 1..Len(@) |-> [@[i] EXCEPT ![control] = @ + 1]]]

\* OnChanged with a slip: the rows are rendered and their controls are left
\* without listeners.
OnChangedRendered(m, dom, payload, locationHash) ==
    IF m.kind = "lists" THEN RenderToDoLists(dom, payload, locationHash)
    ELSE RenderToDoList(dom, payload, locationHash)

\* onToDoListsChanged / onToDoListChanged: the controller's render, and the
\* binding of the rows' controls that follows it (bindUpdate..., bindDelete...,
\* bindToggle..., and bindRouteToDoList in the Collection view).  When
\* render throws, the binding does not follow.
OnChanged(m, dom, payload, locationHash) ==
    LET windowLocationHash == IF locationHash = "" THEN "#all" ELSE locationHash
    IN  IF ~querySelectorFinds(windowLocationHash)
        THEN IF m.kind = "lists"
             THEN RenderToDoLists(dom, payload, locationHash)
             ELSE RenderToDoList(dom, payload, locationHash)
        ELSE IF m.kind = "lists"
        THEN addEventListener(
                 addEventListener(
                     addEventListener(
                         addEventListener(
                             RenderToDoLists(dom, payload, locationHash), "edit"),
                         "delete"),
                     "select"),
                 "link")
        ELSE addEventListener(
                 addEventListener(
                     addEventListener(
                         RenderToDoList(dom, payload, locationHash), "edit"),
                     "delete"),
                 "select")

\* The payload the controller's constructor renders first.
InitialPayload(m) == IF m.kind = "lists" THEN m.toDoLists ELSE toDoListOf(m)

(***************************************************************************)
(* The List Preview: a Store that only loads, and a view without filters   *)
(* and buttons.  The Collection view embeds one per row, constructed while *)
(* the row is rendered, with the row's id as its id attribute.             *)
(***************************************************************************)
VanillaToDoListPreviewModel(storage, id) ==
    LET toDoListId == ToNumber(id)
        loaded == loadToDoLists(storage)
        found(toDoList) == StrictEquals(toDoList.id, toDoListId)
        ref == FirstIndex(loaded, found)
        \* this.toDoList.items = this.toDoList.items || []
        toDoLists ==
            IF ref > 0 /\ "items" \notin DOMAIN loaded[ref]
            THEN [loaded EXCEPT ![ref] = Assign(@, "items", << >>)]
            ELSE loaded
    IN  [kind       |-> "preview",
         toDoListId |-> toDoListId,
         toDoLists  |-> toDoLists,
         ref        |-> ref,
         orphan     |-> [items |-> << >>]]

\* `heading` is the second heading: empty while hidden, the List's name and
\* the class of its done once shown.
PreviewTemplate ==
    [heading      |-> << >>,
     rows         |-> << >>,
     message      |-> "none",
     footerHidden |-> TRUE,
     count        |-> << >>]

\* if (toDoList.name !== undefined && toDoList.done !== undefined): the
\* heading gets the name and the class, and is shown.
PreviewHeading(dom, toDoList) ==
    IF "name" \in DOMAIN toDoList /\ "done" \in DOMAIN toDoList
    THEN [dom EXCEPT !.heading =
             << toDoList.name,
                IF DoneIsFalse(toDoList) THEN "pending" ELSE "done" >>]
    ELSE dom

\* VanillaToDoListPreviewView.render with a slip: the rows and the counts
\* are those of the pending Items.
RenderToDoListPreviewPending(dom, toDoList) ==
    LET toDoListItems == Filter(toDoList.items, DoneIsNotTrue)
        row(r) == [id    |-> r.id,
                   class |-> IF DoneIsFalse(r) THEN "pending" ELSE "done",
                   text  |-> r.text]
        headed == PreviewHeading(dom, toDoList)
    IN  IF Len(toDoList.items) > 0
        THEN [headed EXCEPT
                 !.rows = Map(toDoListItems, row),
                 !.message = "none",
                 !.footerHidden = FALSE,
                 !.count = << Len(toDoListItems),
                              Len(Filter(toDoListItems, DoneIsNotTrue)),
                              Len(Filter(toDoListItems, DoneIsNotFalse)) >>]
        ELSE [headed EXCEPT
                 !.rows = << >>,
                 !.message = IF "id" \in DOMAIN toDoList
                             THEN "Good for you: There's nothing to do!"
                             ELSE "Invalid ID!",
                 !.footerHidden = TRUE]

\* VanillaToDoListPreviewView.render
RenderToDoListPreview(dom, toDoList) ==
    LET toDoListItems == toDoList.items
        row(r) == [id    |-> r.id,
                   class |-> IF DoneIsFalse(r) THEN "pending" ELSE "done",
                   text  |-> r.text]
        headed == PreviewHeading(dom, toDoList)
    IN  IF Len(toDoListItems) > 0
        THEN [headed EXCEPT
                 !.rows = Map(toDoListItems, row),
                 !.message = "none",
                 !.footerHidden = FALSE,
                 !.count = << Len(toDoListItems),
                              Len(Filter(toDoListItems, DoneIsNotTrue)),
                              Len(Filter(toDoListItems, DoneIsNotFalse)) >>]
        ELSE [headed EXCEPT
                 !.rows = << >>,
                 !.message = IF "id" \in DOMAIN toDoList
                             THEN "Good for you: There's nothing to do!"
                             ELSE "Invalid ID!",
                 !.footerHidden = TRUE]

\* new VanillaToDoListPreviewController(new VanillaToDoListPreviewModel(id),
\* new VanillaToDoListPreviewView()): the preview's DOM once constructed.
VanillaToDoListPreview(storage, id) ==
    RenderToDoListPreview(PreviewTemplate,
        toDoListOf(VanillaToDoListPreviewModel(storage, id)))

(***************************************************************************)
(* Inputs.                                                                 *)
(***************************************************************************)
\* The text of a create and the new text of a rename or update.
Texts == {"Groceries"}

NewTexts == {"Errands"}

\* The id no record carries: the number of a missing id attribute.
NoId == ToNumber(NoAttribute)

\* The ids a caller may pass for the records of an array: the id of each
\* record, and NoId.
Ids(array) == {NoId} \cup {array[i].id : i \in 1..Len(array)}

\* A Collection written to localStorage by another program: its records
\* carry no done property.
ForeignToDoLists ==
    << [id          |-> 1,
        created     |-> toJSON(1),
        lastRenamed |-> null,
        lastUpdated |-> null,
        name        |-> "a",
        items       |-> << [id          |-> 1,
                            created     |-> toJSON(1),
                            lastUpdated |-> null,
                            text        |-> "a"] >>] >>

(***************************************************************************)
(* The steps shared by both specifications.                                *)
(***************************************************************************)
mounted == Len(stores)

Call(op, s) == [ev |-> "call", op |-> op, store |-> s, date |-> now]

CallId(op, s, id) ==
    [ev |-> "call", op |-> op, store |-> s, date |-> now, id |-> id]

CallText(op, s, text) ==
    [ev |-> "call", op |-> op, store |-> s, date |-> now, text |-> text]

CallIdText(op, s, id, text) ==
    [ev |-> "call", op |-> op, store |-> s, date |-> now, id |-> id,
     text |-> text]

\* The DOM after the change notifications of a handler's log, in order.
RECURSIVE Rendered(_, _, _, _)
Rendered(m, dom, events, locationHash) ==
    IF events = << >> THEN dom
    ELSE IF Head(events).ev = "changed"
         THEN Rendered(m, OnChanged(m, dom, Head(events).payload, locationHash),
                       Tail(events), locationHash)
         ELSE Rendered(m, dom, Tail(events), locationHash)

\* A handler of Store instance s ran to its end with this result.
Commit(s, result) ==
    /\ stores' = [stores EXCEPT ![s] = result.m]
    /\ localStorage' = result.fx.ls
    /\ log' = result.fx.log
    /\ views' = [views EXCEPT
                   ![s] = Rendered(result.m, @, result.fx.log, hash)]

\* The dates a handler's second `new Date()` may read.
LaterDates == {d \in {now, now + 1} : d <= MaxClock}

IsLists(s) == stores[s].kind = "lists"

IsList(s) == stores[s].kind = "list"

\* The ids a caller may pass to the operations of Store instance s.
ListIds(s) == IF IsLists(s) THEN Ids(stores[s].toDoLists) ELSE {}

ItemIds(s) == IF IsList(s) THEN Ids(toDoListOf(stores[s]).items) ELSE {}

Tick ==
    /\ now < MaxClock
    /\ now' = now + 1
    /\ UNCHANGED << localStorage, stores, views, hash, timers, log >>

(***************************************************************************)
(* The Store operations, called on instance s.                             *)
(***************************************************************************)
CreateToDoList(s, name) ==
    /\ IsLists(s)
    /\ Len(stores[s].toDoLists) < MaxLists
    /\ Commit(s, createToDoList(stores[s],
                  Effects(localStorage, CallText("createToDoList", s, name)),
                  name, now))
    /\ UNCHANGED << now, hash, timers >>

UpdateToDoList(s, id, name) ==
    /\ IsLists(s)
    /\ Commit(s, updateToDoList(stores[s],
                  Effects(localStorage, CallIdText("updateToDoList", s, id, name)),
                  id, name, now))
    /\ UNCHANGED << now, hash, timers >>

DeleteToDoList(s, id) ==
    /\ IsLists(s)
    /\ Commit(s, deleteToDoList(stores[s],
                  Effects(localStorage, CallId("deleteToDoList", s, id)), id))
    /\ UNCHANGED << now, hash, timers >>

ToggleToDoList(s, id) ==
    /\ IsLists(s)
    /\ Commit(s, toggleToDoList(stores[s],
                  Effects(localStorage, CallId("toggleToDoList", s, id)), id))
    /\ UNCHANGED << now, hash, timers >>

ToggleAllToDoLists(s) ==
    /\ IsLists(s)
    /\ Commit(s, toggleAllToDoLists(stores[s],
                  Effects(localStorage, Call("toggleAllToDoLists", s))))
    /\ UNCHANGED << now, hash, timers >>

ClearToDoLists(s) ==
    /\ IsLists(s)
    /\ Commit(s, clearToDoLists(stores[s],
                  Effects(localStorage, Call("clearToDoLists", s))))
    /\ UNCHANGED << now, hash, timers >>

CreateToDoListItem(s, text) ==
    /\ IsList(s)
    /\ Len(toDoListOf(stores[s]).items) < MaxItems
    /\ \E dateStored \in LaterDates :
        /\ Commit(s, createToDoListItem(stores[s],
                      Effects(localStorage,
                              CallText("createToDoListItem", s, text)),
                      text, now, dateStored))
        /\ now' = dateStored
    /\ UNCHANGED << hash, timers >>

UpdateToDoListItem(s, id, text) ==
    /\ IsList(s)
    /\ \E dateStored \in LaterDates :
        /\ Commit(s, updateToDoListItem(stores[s],
                      Effects(localStorage,
                              CallIdText("updateToDoListItem", s, id, text)),
                      id, text, now, dateStored))
        /\ now' = dateStored
    /\ UNCHANGED << hash, timers >>

DeleteToDoListItem(s, id) ==
    /\ IsList(s)
    /\ Commit(s, deleteToDoListItem(stores[s],
                  Effects(localStorage, CallId("deleteToDoListItem", s, id)),
                  id, now))
    /\ UNCHANGED << now, hash, timers >>

ToggleToDoListItem(s, id) ==
    /\ IsList(s)
    /\ Commit(s, toggleToDoListItem(stores[s],
                  Effects(localStorage, CallId("toggleToDoListItem", s, id)),
                  id, now))
    /\ UNCHANGED << now, hash, timers >>

ToggleAllToDoListItems(s) ==
    /\ IsList(s)
    /\ Commit(s, toggleAllToDoListItems(stores[s],
                  Effects(localStorage, Call("toggleAllToDoListItems", s)), now))
    /\ UNCHANGED << now, hash, timers >>

ClearToDoList(s) ==
    /\ IsList(s)
    /\ Commit(s, clearToDoList(stores[s],
                  Effects(localStorage, Call("clearToDoList", s)), now))
    /\ UNCHANGED << now, hash, timers >>

(***************************************************************************)
(* Spec: one Store instance operating alone, from its construction on.     *)
(* The page is loaded at date StartClock over a localStorage that is       *)
(* empty, or holds a Collection the application wrote at the dates before, *)
(* or holds the foreign Collection; it shows the Collection or one of its  *)
(* Lists.  The mounted Store's operations are then called with any         *)
(* arguments; a reload of the page constructs the Store again from         *)
(* localStorage, with the same id.                                         *)
(***************************************************************************)
StartClock == 2

\* localStorage after the Collection Store created a List at each date.
RECURSIVE CreatedAt(_)
CreatedAt(dates) ==
    IF dates = << >> THEN << >>
    ELSE LET before == CreatedAt(SubSeq(dates, 1, Len(dates) - 1))
         IN  createToDoList(VanillaToDoListsModel(before),
                            Effects(before, << >>), "a",
                            dates[Len(dates)]).fx.ls

InitialStorages ==
    { << >>,
      setItem(<< >>, "toDoLists", stringify(ForeignToDoLists)),
      CreatedAt(<< 1, 2 >>),
      CreatedAt(<< 1, 1 >>) }

\* The ids carried by the Lists of the persisted Collection.
StoredIds(storage) ==
    {loadToDoLists(storage)[i].id : i \in 1..Len(loadToDoLists(storage))}

Constructed(m, call) ==
    /\ stores' = << m >>
    /\ views' = << OnChanged(m, Template, InitialPayload(m), hash) >>
    /\ log' = << call >>

LoadToDoLists ==
    /\ IsLists(mounted)
    /\ Constructed(VanillaToDoListsModel(localStorage),
                   [ev |-> "construct", kind |-> "lists"])
    /\ UNCHANGED << localStorage, now, hash, timers >>

LoadToDoList(id) ==
    /\ IsList(mounted)
    /\ ToNumber(id) = stores[mounted].toDoListId
    /\ Constructed(VanillaToDoListModel(localStorage, id),
                   [ev |-> "construct", kind |-> "list", id |-> id])
    /\ UNCHANGED << localStorage, now, hash, timers >>

Init ==
    /\ localStorage \in InitialStorages
    /\ now = StartClock
    /\ hash = ""
    /\ timers = << >>
    /\ \E m \in {VanillaToDoListsModel(localStorage)}
              \cup {VanillaToDoListModel(localStorage, id) :
                        id \in StoredIds(localStorage)} :
        /\ stores = << m >>
        /\ views = << OnChanged(m, Template, InitialPayload(m), hash) >>
        /\ log = << [ev |-> "construct", kind |-> m.kind] >>

Next ==
    \/ Tick
    \/ LoadToDoLists
    \/ \E id \in StoredIds(localStorage) : LoadToDoList(id)
    \/ \E name \in Texts : CreateToDoList(mounted, name)
    \/ \E id \in ListIds(mounted), name \in NewTexts :
            UpdateToDoList(mounted, id, name)
    \/ \E id \in ListIds(mounted) : DeleteToDoList(mounted, id)
    \/ \E id \in ListIds(mounted) : ToggleToDoList(mounted, id)
    \/ ToggleAllToDoLists(mounted)
    \/ ClearToDoLists(mounted)
    \/ \E text \in Texts : CreateToDoListItem(mounted, text)
    \/ \E id \in ItemIds(mounted), text \in NewTexts :
            UpdateToDoListItem(mounted, id, text)
    \/ \E id \in ItemIds(mounted) : DeleteToDoListItem(mounted, id)
    \/ \E id \in ItemIds(mounted) : ToggleToDoListItem(mounted, id)
    \/ ToggleAllToDoListItems(mounted)
    \/ ClearToDoList(mounted)

Spec == Init /\ [][Next]_vars

(***************************************************************************)
(* SpecBoolean: Spec over the Collections the application wrote itself.    *)
(* The page is loaded over a localStorage that is empty or holds a         *)
(* Collection whose done flags are all true or false.                      *)
(***************************************************************************)
\* Every done of the array is true or false.
DoneIsBoolean(array) ==
    \A i \in 1..Len(array) :
        "done" \in DOMAIN array[i] /\ array[i].done \in BOOLEAN

InitBoolean ==
    /\ Init
    /\ DoneIsBoolean(loadToDoLists(localStorage))
    /\ \A i \in 1..Len(loadToDoLists(localStorage)) :
          DoneIsBoolean(loadToDoLists(localStorage)[i].items)

SpecBoolean == InitBoolean /\ [][Next]_vars

(***************************************************************************)
(* SpecApp: the page driven through its views.  A click on a checkbox or   *)
(* on the toggle-all button flips the classes of the rows at once and      *)
(* leaves the Store operation to a timeout of `long` milliseconds; the     *)
(* timeouts all wait equally long, so they run in the order they were      *)
(* set.  A click on a List's link or on the navigation bar replaces the    *)
(* mounted component by a new one, which constructs its own Store from     *)
(* localStorage; no timeout is cleared, and a pending one still calls the  *)
(* Store of the component that set it.                                     *)
(***************************************************************************)
MaxStores == 2

MaxTimers == 1

\* this.short = 250; this.long = 2 * this.short: the settle delay.
short == 250

long == 2 * short

\* setTimeout(callback, this.long)
setTimeout(queue, callback) == Append(queue, callback)

\* classList.toggle('pending'); classList.toggle('done')
ClassesToggled(row) ==
    [row EXCEPT !.class = IF @ = "pending" THEN "done" ELSE "pending"]

\* The rows of the mounted view.
rowsMounted == views[mounted].rows

Clicked(target) == << [ev |-> "click", target |-> target] >>

\* SelectClicked with a slip: the listener calls the event handler at once,
\* without a timeout.
SelectClickedAtOnce(i) ==
    /\ i \in 1..Len(rowsMounted)
    /\ rowsMounted[i].select > 0
    /\ \/ ToggleToDoList(mounted, ToNumber(rowsMounted[i].id))
       \/ ToggleToDoListItem(mounted, ToNumber(rowsMounted[i].id))

\* The click listener of the checkbox of row i.
SelectClicked(i) ==
    /\ i \in 1..Len(rowsMounted)
    /\ rowsMounted[i].select > 0
    /\ views' = [views EXCEPT ![mounted].rows[i] = ClassesToggled(@)]
    /\ timers' = setTimeout(timers, [store |-> mounted,
                                     op    |-> "toggle",
                                     id    |-> ToNumber(rowsMounted[i].id),
                                     delay |-> long])
    /\ log' = Clicked("select")
    /\ UNCHANGED << localStorage, now, stores, hash >>

\* The click listener of the toggle-all button.
ToggleAllClicked ==
    /\ views' = [views EXCEPT ![mounted].rows = Map(@, ClassesToggled)]
    /\ timers' = setTimeout(timers, [store |-> mounted,
                                     op    |-> "toggleAll",
                                     id    |-> NoId,
                                     delay |-> long])
    /\ log' = Clicked("toggle-all")
    /\ UNCHANGED << localStorage, now, stores, hash >>

\* A click on the checkbox of row i.
ClickToggle(i) ==
    /\ Len(timers) < MaxTimers
    /\ SelectClicked(i)

\* A click on the toggle-all button.
ClickToggleAll ==
    /\ Len(timers) < MaxTimers
    /\ ToggleAllClicked

\* The Store operation the callback of timeout t calls.
Callback(t) ==
    LET s == t.store
    IN  IF IsLists(s)
        THEN IF t.op = "toggle"
             THEN toggleToDoList(stores[s],
                      Effects(localStorage, CallId("toggleToDoList", s, t.id)),
                      t.id)
             ELSE toggleAllToDoLists(stores[s],
                      Effects(localStorage, Call("toggleAllToDoLists", s)))
        ELSE IF t.op = "toggle"
             THEN toggleToDoListItem(stores[s],
                      Effects(localStorage,
                              CallId("toggleToDoListItem", s, t.id)),
                      t.id, now)
             ELSE toggleAllToDoListItems(stores[s],
                      Effects(localStorage, Call("toggleAllToDoListItems", s)),
                      now)

\* The oldest timeout expires.
Timeout ==
    /\ timers # << >>
    /\ Commit(Head(timers).store, Callback(Head(timers)))
    /\ timers' = Tail(timers)
    /\ UNCHANGED << now, hash >>

\* The router replaced the page's component by a new one with Store m.
Routed(m, call) ==
    /\ Len(stores) < MaxStores
    /\ stores' = Append(stores, m)
    /\ views' = Append(views, OnChanged(m, Template, InitialPayload(m), hash))
    /\ log' = << call >>
    /\ UNCHANGED << localStorage, now, hash, timers >>

\* A click on the link of row i of the Collection view.
RouteToDoList(i) ==
    /\ IsLists(mounted)
    /\ i \in 1..Len(rowsMounted)
    /\ rowsMounted[i].link > 0
    /\ Routed(VanillaToDoListModel(localStorage, rowsMounted[i].id),
              [ev |-> "construct", kind |-> "list", id |-> rowsMounted[i].id])

\* A click on the navigation bar of the List view.
RouteToDoLists ==
    /\ IsList(mounted)
    /\ Routed(VanillaToDoListsModel(localStorage),
              [ev |-> "construct", kind |-> "lists"])

\* A click on the delete button of row i.
ClickDelete(i) ==
    /\ i \in 1..Len(rowsMounted)
    /\ rowsMounted[i].delete > 0
    /\ \/ DeleteToDoList(mounted, ToNumber(rowsMounted[i].id))
       \/ DeleteToDoListItem(mounted, ToNumber(rowsMounted[i].id))

NextApp ==
    \/ Tick
    \/ \E name \in Texts : CreateToDoList(mounted, name)
    \/ \E text \in Texts : CreateToDoListItem(mounted, text)
    \/ \E i \in 1..MaxLists : ClickToggle(i)
    \/ ClickToggleAll
    \/ \E i \in 1..MaxLists : ClickDelete(i)
    \/ Timeout
    \/ \E i \in 1..MaxLists : RouteToDoList(i)
    \/ RouteToDoLists

SpecApp == Init /\ [][NextApp]_vars

\* The callback of the oldest timeout has run and left the queue.  The
\* steps of NextApp that shorten the queue are the Timeout steps, and
\* Timeout is enabled whenever the queue is not empty.
Expired == timers # << >> /\ timers' = Tail(timers)

\* SpecApp with the event loop: an expired timeout is eventually run.
SpecAppFair == SpecApp /\ WF_timers(Expired)

(***************************************************************************)
(* SpecInvalid: the single-List component mounted with an id attribute     *)
(* that addresses no List of the persisted Collection: the attribute is    *)
(* missing, holds no numeral, or holds a number no List carries.  The      *)
(* Store's operations are then called with any arguments, and the page may *)
(* be reloaded with the same attribute.                                    *)
(***************************************************************************)
\* The id attributes the router may give the <vanilla-to-do-list> element.
Attributes == {NoAttribute, NonNumeric} \cup (1..MaxClock)

\* Those that address no List of the Collection in `storage`.
InvalidAttributes(storage) ==
    {id \in Attributes : ToNumber(id) \notin StoredIds(storage)}

InitInvalid ==
    /\ localStorage \in InitialStorages
    /\ now = StartClock
    /\ hash = ""
    /\ timers = << >>
    /\ \E id \in InvalidAttributes(localStorage) :
        LET m == VanillaToDoListModel(localStorage, id)
        IN  /\ stores = << m >>
            /\ views = << OnChanged(m, Template, InitialPayload(m), hash) >>
            /\ log = << [ev |-> "construct", kind |-> "list", id |-> id] >>

NextInvalid ==
    \/ Tick
    \/ \E id \in InvalidAttributes(localStorage) : LoadToDoList(id)
    \/ \E text \in Texts : CreateToDoListItem(mounted, text)
    \/ \E id \in ItemIds(mounted), text \in NewTexts :
            UpdateToDoListItem(mounted, id, text)
    \/ \E id \in ItemIds(mounted) : DeleteToDoListItem(mounted, id)
    \/ \E id \in ItemIds(mounted) : ToggleToDoListItem(mounted, id)
    \/ ToggleAllToDoListItems(mounted)
    \/ ClearToDoList(mounted)

SpecInvalid == InitInvalid /\ [][NextInvalid]_vars

(***************************************************************************)
(* SpecView: the mounted component under the filters.  The page is loaded  *)
(* with any of the filter hashes, on the Collection or on a List (its id   *)
(* attribute valid or not); a click on a filter link changes the hash, and *)
(* the hashchange listener renders the Store's data again.  Records are    *)
(* created, toggled, deleted and cleared in between.                       *)
(***************************************************************************)
\* handleWindowHashChange with a slip: the Store is constructed again from
\* localStorage before the render.
HashChangeReloaded(h) ==
    /\ h # hash
    /\ hash' = h
    /\ LET m == IF IsLists(mounted) THEN VanillaToDoListsModel(localStorage)
                ELSE VanillaToDoListModel(localStorage,
                                          stores[mounted].toDoListId)
       IN  /\ stores' = [stores EXCEPT ![mounted] = m]
           /\ views' = [views EXCEPT ![mounted] =
                           OnChanged(m, @, InitialPayload(m), h)]
    /\ log' = << [ev |-> "hashchange", hash |-> h] >>
    /\ UNCHANGED << localStorage, now, timers >>

\* handleWindowHashChange, after window.location.hash became h.
HashChange(h) ==
    /\ h # hash
    /\ hash' = h
    /\ views' = [views EXCEPT ![mounted] =
                    OnChanged(stores[mounted], @,
                              InitialPayload(stores[mounted]), h)]
    /\ log' = << [ev |-> "hashchange", hash |-> h] >>
    /\ UNCHANGED << localStorage, now, stores, timers >>

InitView ==
    /\ localStorage \in InitialStorages
    /\ now = StartClock
    /\ hash \in Hashes
    /\ timers = << >>
    /\ \E m \in {VanillaToDoListsModel(localStorage)}
              \cup {VanillaToDoListModel(localStorage, id) : id \in Attributes} :
        /\ stores = << m >>
        /\ views = << OnChanged(m, Template, InitialPayload(m), hash) >>
        /\ log = << [ev |-> "construct", kind |-> m.kind] >>

NextView ==
    \/ \E h \in Hashes : HashChange(h)
    \/ \E name \in Texts : CreateToDoList(mounted, name)
    \/ \E id \in ListIds(mounted) : DeleteToDoList(mounted, id)
    \/ \E id \in ListIds(mounted) : ToggleToDoList(mounted, id)
    \/ ToggleAllToDoLists(mounted)
    \/ ClearToDoLists(mounted)
    \/ \E text \in Texts : CreateToDoListItem(mounted, text)
    \/ \E id \in ItemIds(mounted) : DeleteToDoListItem(mounted, id)
    \/ \E id \in ItemIds(mounted) : ToggleToDoListItem(mounted, id)
    \/ ToggleAllToDoListItems(mounted)
    \/ ClearToDoList(mounted)

SpecView == InitView /\ [][NextView]_vars

(***************************************************************************)
(* SpecInput: the texts the user types.  A value of an input element is a  *)
(* sequence of characters.  The page starts on the empty Collection; the   *)
(* user types into the create input and presses Enter, edits the text of a *)
(* row and confirms with Enter or by leaving the input, and navigates      *)
(* between the Collection and its Lists.  No timeout is pending in this    *)
(* specification, so a replaced component is never heard of again.         *)
(***************************************************************************)
\* The characters \s of the regular expression matches, among those typed.
Whitespace == {" ", "\t"}

\* The values typed into an input.
Values == { << >>, << "\t", " " >>, << "a" >>, << " ", "a" >> }

\* The test with a slip: only the empty value matches (value === '').
MatchesEmpty(value) == value = << >>

\* value.match(/^\s*$/)
MatchesAllWhitespace(value) ==
    \A i \in 1..Len(value) : value[i] \in Whitespace

\* A keydown or blur listener returned without calling its event handler.
Ignored(event, value) ==
    /\ log' = << [ev |-> event, value |-> value] >>
    /\ UNCHANGED << localStorage, now, stores, views, hash, timers >>

\* Enter pressed in the create input holding `value`.
KeydownCreate(value) ==
    IF ~MatchesAllWhitespace(value)
    THEN \/ CreateToDoList(mounted, value)
         \/ CreateToDoListItem(mounted, value)
    ELSE Ignored("keydown", value)

\* Row i is edited: its edit control is clicked, `value` is typed over the
\* row's text, and Enter is pressed or the input loses the focus.
KeydownUpdate(i, value) ==
    /\ i \in 1..Len(rowsMounted)
    /\ rowsMounted[i].edit > 0
    /\ IF ~MatchesAllWhitespace(value)
       THEN IF value # rowsMounted[i].text
            THEN \/ UpdateToDoList(mounted, ToNumber(rowsMounted[i].id), value)
                 \/ UpdateToDoListItem(mounted, ToNumber(rowsMounted[i].id),
                                       value)
            ELSE Ignored("keydown", value)
       ELSE Ignored("keydown", value)

\* A click on the link of row i of the Collection view.
OpenToDoList(i) ==
    /\ IsLists(mounted)
    /\ i \in 1..Len(rowsMounted)
    /\ rowsMounted[i].link > 0
    /\ Constructed(VanillaToDoListModel(localStorage, rowsMounted[i].id),
                   [ev |-> "construct", kind |-> "list",
                    id |-> rowsMounted[i].id])
    /\ UNCHANGED << localStorage, now, hash, timers >>

\* A click on the navigation bar of the List view.
OpenToDoLists ==
    /\ IsList(mounted)
    /\ Constructed(VanillaToDoListsModel(localStorage),
                   [ev |-> "construct", kind |-> "lists"])
    /\ UNCHANGED << localStorage, now, hash, timers >>

InitInput ==
    /\ localStorage = << >>
    /\ now = StartClock
    /\ hash = ""
    /\ timers = << >>
    /\ stores = << VanillaToDoListsModel(localStorage) >>
    /\ views = << OnChanged(stores[1], Template, InitialPayload(stores[1]),
                            hash) >>
    /\ log = << [ev |-> "construct", kind |-> "lists"] >>

NextInput ==
    \/ \E value \in Values : KeydownCreate(value)
    \/ \E i \in 1..MaxLists, value \in Values : KeydownUpdate(i, value)
    \/ \E i \in 1..MaxLists : OpenToDoList(i)
    \/ OpenToDoLists

SpecInput == InitInput /\ [][NextInput]_vars

(***************************************************************************)
(* SpecClick: one component and its controls.  The page is loaded as in    *)
(* Spec and stays on its component; the user creates records, clicks the   *)
(* checkboxes, the toggle-all button and the delete buttons of the rows,   *)
(* picks a filter, and clicks the clear button and the buttons of the      *)
(* confirmation it brings up.  A button takes a click only while it is     *)
(* displayed.  Several timeouts may be pending at once: a second click on  *)
(* a checkbox may fall into the settle delay of the first.                 *)
(***************************************************************************)
\* The timeouts pending at once.
MaxClicks == 2

\* The clicks on the clear button in the life of a view.
MaxConfirmations == 2

theFooter == views[mounted]

\* ClickClear with a slip: the click listener of the clear button calls the
\* event handler without asking.
ClickClearAtOnce ==
    /\ ~theFooter.footerHidden
    /\ ~theFooter.clearHidden
    /\ \/ ClearToDoLists(mounted)
       \/ ClearToDoList(mounted)

\* The click listener of the clear button, bound once by the controller's
\* constructor: each click adds a listener to `yes` and one to `no`.
ClickClear ==
    /\ ~theFooter.footerHidden
    /\ ~theFooter.clearHidden
    /\ theFooter.yes < MaxConfirmations
    /\ views' = [views EXCEPT ![mounted] =
                    [@ EXCEPT !.clearHidden = TRUE,
                              !.confirmationHidden = FALSE,
                              !.yes = @ + 1,
                              !.no = @ + 1]]
    /\ log' = Clicked("clear")
    /\ UNCHANGED << localStorage, now, stores, hash, timers >>

\* A click on `no`: each of its listeners hides the confirmation and shows
\* the clear button.
ClickNo ==
    /\ ~theFooter.footerHidden
    /\ ~theFooter.confirmationHidden
    /\ theFooter.no > 0
    /\ views' = [views EXCEPT ![mounted] =
                    [@ EXCEPT !.confirmationHidden = TRUE,
                              !.clearHidden = FALSE]]
    /\ log' = Clicked("no")
    /\ UNCHANGED << localStorage, now, stores, hash, timers >>

\* The Store and the effects after n listeners of `yes` ran, one after the
\* other: each calls the Store's clear operation.
RECURSIVE Confirmed(_, _, _)
Confirmed(m, fx, n) ==
    IF n = 0 THEN [m |-> m, fx |-> fx]
    ELSE LET called == [fx EXCEPT !.log =
                           Append(@, Call(IF m.kind = "lists"
                                          THEN "clearToDoLists"
                                          ELSE "clearToDoList", mounted))]
             once == IF m.kind = "lists" THEN clearToDoLists(m, called)
                     ELSE clearToDoList(m, called, now)
         IN  Confirmed(once.m, once.fx, n - 1)

\* A click on `yes`: each of its listeners hides the confirmation and calls
\* the event handler.
ClickYes ==
    /\ ~theFooter.footerHidden
    /\ ~theFooter.confirmationHidden
    /\ theFooter.yes > 0
    /\ LET result == Confirmed(stores[mounted],
                               [ls |-> localStorage, log |-> Clicked("yes")],
                               theFooter.yes)
       IN  /\ stores' = [stores EXCEPT ![mounted] = result.m]
           /\ localStorage' = result.fx.ls
           /\ log' = result.fx.log
           /\ views' = [views EXCEPT ![mounted] =
                           Rendered(result.m,
                                    [@ EXCEPT !.confirmationHidden = TRUE],
                                    result.fx.log, hash)]
    /\ UNCHANGED << now, hash, timers >>

NextClick ==
    \/ \E name \in Texts : CreateToDoList(mounted, name)
    \/ \E text \in Texts : CreateToDoListItem(mounted, text)
    \/ \E i \in 1..MaxLists : Len(timers) < MaxClicks /\ SelectClicked(i)
    \/ Len(timers) < MaxClicks /\ ToggleAllClicked
    \/ \E i \in 1..MaxLists : ClickDelete(i)
    \/ Timeout
    \/ ClickClear
    \/ ClickNo
    \/ ClickYes
    \/ \E h \in Hashes : HashChange(h)

SpecClick == Init /\ [][NextClick]_vars

(***************************************************************************)
(* SpecPreview: SpecView and the List Preview element.  A preview is       *)
(* constructed with an id attribute, by the Collection view for a row or   *)
(* by any document that holds the element; its Store loads the Collection  *)
(* once and its view renders once.  The preview is not one of `stores`:    *)
(* its Store has the constructor and bindToDoListChanged only, so no       *)
(* operation of the model applies to it.  The log records the DOM built.   *)
(***************************************************************************)
\* new VanillaToDoListPreview() with the id attribute `id`
ConnectPreview(id) ==
    /\ log' = << [ev  |-> "preview",
                  id  |-> id,
                  dom |-> VanillaToDoListPreview(localStorage, id)] >>
    /\ UNCHANGED << localStorage, now, stores, views, hash, timers >>

NextPreview ==
    \/ NextView
    \/ \E id \in Attributes : ConnectPreview(id)

SpecPreview == InitView /\ [][NextPreview]_vars

(***************************************************************************)
(* SpecFragment: SpecView with any fragment in the address.  The page is   *)
(* loaded with one of the three filters or none; afterwards the fragment   *)
(* is changed to one of them, to the id of another element of the          *)
(* template, or to a fragment that selects no element.                     *)
(***************************************************************************)
Fragments == Hashes \cup {"#count", "#elsewhere"}

NextFragment ==
    \/ NextView
    \/ \E h \in Fragments \ Hashes : HashChange(h)

SpecFragment == InitView /\ [][NextFragment]_vars

(***************************************************************************)
(* Vocabulary of the claims.                                               *)
(***************************************************************************)
\* The mounted Store, its Collection, and (single-List Store) its Items.
theStore == stores[mounted]

theLists == theStore.toDoLists

theItems == toDoListOf(theStore).items

\* The persisted Collection.
persisted == loadToDoLists(localStorage)

\* The call the log begins with, if it begins with one.
Called(op) == log[1].ev = "call" /\ log[1].op = op

CalledWith(op, id) == Called(op) /\ log[1].id = id

Carried(array, id) == \E i \in 1..Len(array) : array[i].id = id

\* Record `after` is record `before` but for the properties `keys`.
SameBut(before, after, keys) ==
    /\ DOMAIN after \ keys = DOMAIN before \ keys
    /\ \A k \in DOMAIN before \ keys : after[k] = before[k]

\* The records of an array whose id is not `id`, in order.
Without(array, id) ==
    LET other(r) == r.id # id IN SelectSeq(array, other)

\* C1: after every operation of the mounted Store the persisted Collection
\* equals the Store's in-memory Collection, and a Store constructed from
\* localStorage (with the same id) is identical to the mounted Store.
C1_RoundTrip ==
    /\ log[1].ev = "call" =>
          /\ hasItem(localStorage, "toDoLists")
          /\ parse(getItem(localStorage, "toDoLists")) = theLists
    /\ persisted = theLists
    /\ IsLists(mounted) => VanillaToDoListsModel(localStorage) = theStore
    /\ IsList(mounted) =>
          VanillaToDoListModel(localStorage, theStore.toDoListId) = theStore

C1_Witness ==
    /\ Called("updateToDoListItem")
    /\ Len(persisted) = 2
    /\ \E i \in 1..Len(theItems) : theItems[i].text = "Errands"

\* C2: within one tab at most one Store instance writes the persisted
\* Collection at any time: a whole-Collection write is performed by the Store
\* of the mounted component only, never by a Store constructed before a newer
\* one loaded the Collection; the mounted Store's in-memory Collection is
\* therefore the persisted one, and its next write overwrites nothing.
Wrote == \E i \in 1..Len(log) : log[i].ev = "setItem"

C2_SingleWriter ==
    /\ Wrote => log[1].store = mounted
    /\ stores[mounted].toDoLists = loadToDoLists(localStorage)

\* C3: every Collection Store operation performs, after its in-memory
\* mutation, exactly one setItem of the whole mutated Collection and then
\* exactly one change notification carrying that Collection, which finds the
\* Collection already persisted; also when the id matches no record.
CollectionOps ==
    {"createToDoList", "updateToDoList", "deleteToDoList", "toggleToDoList",
     "toggleAllToDoLists", "clearToDoLists"}

C3_MutatePersistNotify ==
    (log[1].ev = "call" /\ log[1].op \in CollectionOps) =>
        /\ Len(log) = 3
        /\ log[2] = [ev |-> "setItem", value |-> stringify(theLists)]
        /\ log[3] = [ev |-> "changed", payload |-> theLists,
                     ls |-> localStorage]
        /\ getItem(localStorage, "toDoLists") = stringify(theLists)

C3_Witness ==
    /\ CalledWith("toggleToDoList", NoId)
    /\ Len(theLists) = 2

\* C4: create(name) lengthens the Collection by exactly one record placed at
\* the end, with the given name, done = false, no items, created = the
\* current instant, lastRenamed and lastUpdated unset, and leaves every
\* earlier record unchanged; likewise creating an Item in a List.  On the
\* empty Collection, create("Groceries") yields exactly one List, named
\* "Groceries", with done = false and items = [].
C4_CreateAppends ==
    [][ /\ (theLists = << >> /\ CreateToDoList(mounted, "Groceries")) =>
             /\ Len(persisted') = 1
             /\ persisted'[1].name = "Groceries"
             /\ persisted'[1].done = FALSE
             /\ persisted'[1].items = << >>
        /\ \A name \in Texts :
             CreateToDoList(mounted, name) =>
                 /\ Len(theLists') = Len(theLists) + 1
                 /\ SubSeq(theLists', 1, Len(theLists)) = theLists
                 /\ LET toDoList == theLists'[Len(theLists')]
                    IN  /\ toDoList.name = name
                        /\ toDoList.done = FALSE
                        /\ toDoList.items = << >>
                        /\ toDoList.created = toJSON(now)
                        /\ toDoList.lastRenamed = null
                        /\ toDoList.lastUpdated = null
                 /\ persisted' = theLists'
        /\ \A text \in Texts :
             CreateToDoListItem(mounted, text) =>
                 /\ Len(theItems') = Len(theItems) + 1
                 /\ SubSeq(theItems', 1, Len(theItems)) = theItems
                 /\ LET toDoListItem == theItems'[Len(theItems')]
                    IN  /\ toDoListItem.text = text
                        /\ toDoListItem.done = FALSE
                        /\ toDoListItem.created = toJSON(now)
                        /\ toDoListItem.lastUpdated = null
      ]_vars

C4_Witness ==
    /\ Called("createToDoList")
    /\ Len(theLists) = 2
    /\ theLists[1].lastRenamed # null
    /\ theLists[2].name = "Groceries"
    /\ theLists[2].created = toJSON(now)

\* C5: rename(id, newName) changes, in each List whose id matches, only name
\* (to newName) and lastRenamed (to the current instant); every other
\* property of it and every other List are unchanged.
C5_RenameFrame ==
    [][ \A id \in ListIds(mounted), name \in NewTexts :
            UpdateToDoList(mounted, id, name) =>
                /\ Len(theLists') = Len(theLists)
                /\ \A i \in 1..Len(theLists) :
                      IF theLists[i].id = id
                      THEN /\ theLists'[i].name = name
                           /\ theLists'[i].lastRenamed = toJSON(now)
                           /\ SameBut(theLists[i], theLists'[i],
                                      {"name", "lastRenamed"})
                      ELSE theLists'[i] = theLists[i]
      ]_vars

C5_Witness ==
    /\ Called("updateToDoList")
    /\ Len(theLists) = 2
    /\ theLists[1].id # theLists[2].id
    /\ theLists[2].id = log[1].id
    /\ theLists[2].name = "Errands"
    /\ theLists[2].lastRenamed = toJSON(now)
    /\ theLists[2].done = TRUE
    /\ theLists[1].lastRenamed = null

\* C6: toggle(id) negates done of each List whose id matches and changes
\* nothing else: no other property of that List and no other List.
C6_ToggleFrame ==
    [][ \A id \in ListIds(mounted) :
            ToggleToDoList(mounted, id) =>
                /\ Len(theLists') = Len(theLists)
                /\ \A i \in 1..Len(theLists) :
                      IF theLists[i].id = id
                      THEN /\ theLists'[i].done = NotDone(theLists[i])
                           /\ SameBut(theLists[i], theLists'[i], {"done"})
                      ELSE theLists'[i] = theLists[i]
      ]_vars

C6_Witness ==
    /\ Called("toggleToDoList")
    /\ Len(theLists) = 2
    /\ theLists[1].id = log[1].id
    /\ theLists[2].id # log[1].id
    /\ theLists[1].done = TRUE
    /\ theLists[1].lastRenamed # null
    /\ theLists[2].done = FALSE

\* C7: after delete(id) no record with that id exists in the in-memory or
\* in the persisted Collection, and the records with a different id are
\* all present, unchanged and in order; likewise for the Items of a List.
C7_Delete ==
    [][ /\ \A id \in ListIds(mounted) :
             DeleteToDoList(mounted, id) =>
                 /\ ~Carried(theLists', id)
                 /\ ~Carried(persisted', id)
                 /\ theLists' = Without(theLists, id)
                 /\ persisted' = Without(persisted, id)
        /\ \A id \in ItemIds(mounted) :
             DeleteToDoListItem(mounted, id) =>
                 /\ ~Carried(theItems', id)
                 /\ theItems' = Without(theItems, id)
                 /\ \A i \in 1..Len(persisted') :
                       IF persisted'[i].id = theStore.toDoListId
                       THEN persisted'[i].items = Without(theItems, id)
                       ELSE persisted'[i] = persisted[i]
      ]_vars

C7_Witness ==
    /\ Called("deleteToDoListItem")
    /\ log[1].id # NoId
    /\ Len(theItems) = 1
    /\ theItems[1].id > log[1].id
    /\ persisted[theStore.ref].items = theItems
    /\ persisted[theStore.ref].lastUpdated = toJSON(now)

\* C8: on the Collection Store, delete(id), rename(id, n) and toggle(id)
\* with an id carried by no List leave the in-memory and the persisted
\* Collection unchanged and emit one notification carrying that Collection.
C8_NotFoundNoOp ==
    [][ \A id \in ListIds(mounted) :
            ( /\ ~Carried(theLists, id)
              /\ \/ DeleteToDoList(mounted, id)
                 \/ ToggleToDoList(mounted, id)
                 \/ \E name \in NewTexts : UpdateToDoList(mounted, id, name) )
            => /\ theLists' = theLists
               /\ persisted' = persisted
               /\ Len(log') = 3
               /\ log'[3].ev = "changed"
               /\ log'[3].payload = theLists
      ]_vars

C8_Witness ==
    /\ CalledWith("deleteToDoList", NoId)
    /\ Len(theLists) = 2
    /\ persisted = theLists

\* C9: in the single-List Store, update(id, t), delete(id) and toggle(id)
\* with an id carried by no Item are no-ops: they leave the persisted
\* Collection, every property of the parent List included, as it was.
C9_NotFoundLeavesStorage ==
    [][ \A id \in ItemIds(mounted) :
            ( /\ ~Carried(theItems, id)
              /\ \/ DeleteToDoListItem(mounted, id)
                 \/ ToggleToDoListItem(mounted, id)
                 \/ \E text \in NewTexts : UpdateToDoListItem(mounted, id, text) )
            => persisted' = persisted
      ]_vars

\* What #store does on such a call: the Items and the persisted Collection
\* stay as they were but for lastUpdated of the parent List (each List
\* carrying the Store's id), which is set to the current instant.
NotFoundTouchesParent ==
    [][ \A id \in ItemIds(mounted) :
            ( /\ ~Carried(theItems, id)
              /\ \/ DeleteToDoListItem(mounted, id)
                 \/ ToggleToDoListItem(mounted, id)
                 \/ \E text \in NewTexts : UpdateToDoListItem(mounted, id, text) )
            => /\ theItems' = theItems
               /\ Len(persisted') = Len(persisted)
               /\ \A i \in 1..Len(persisted) :
                     IF persisted[i].id = theStore.toDoListId
                     THEN /\ persisted'[i].lastUpdated = toJSON(now')
                          /\ SameBut(persisted[i], persisted'[i], {"lastUpdated"})
                     ELSE persisted'[i] = persisted[i]
      ]_vars

\* Two records agree on done: both lack it, or both carry the same value.
SameDone(a, b) ==
    /\ ("done" \in DOMAIN a) = ("done" \in DOMAIN b)
    /\ "done" \in DOMAIN a => a.done = b.done

\* The arrays a second toggleAll gives from the state after a first one.
ListsToggledAgain ==
    toggleAllToDoLists(theStore', Effects(localStorage', << >>)).m.toDoLists

ItemsToggledAgain ==
    toDoListOf(toggleAllToDoListItems(theStore', Effects(localStorage', << >>),
                                      now').m).items

\* C10, as claimed: for every Collection the Store can hold, also one loaded
\* with a done that is neither true nor false, toggleAll applied twice gives
\* every record its original done back; likewise for the Items of a List.
C10_ToggleAllTwice ==
    [][ /\ ToggleAllToDoLists(mounted) =>
             \A i \in 1..Len(theLists) :
                 SameDone(theLists[i], ListsToggledAgain[i])
        /\ ToggleAllToDoListItems(mounted) =>
             \A i \in 1..Len(theItems) :
                 SameDone(theItems[i], ItemsToggledAgain[i])
      ]_vars

\* After one toggleAll and after two: a done that is true or false is
\* negated and then restored; a record without done is done after one
\* toggleAll and done = false after two.
ToggledTwice(before, once, twice) ==
    /\ Len(once) = Len(before)
    /\ Len(twice) = Len(before)
    /\ \A i \in 1..Len(before) :
          IF "done" \in DOMAIN before[i]
          THEN /\ once[i].done = ~before[i].done
               /\ twice[i].done = before[i].done
          ELSE /\ once[i].done = TRUE
               /\ twice[i].done = FALSE

\* C10, amended: toggleAll applied twice gives every record whose done is
\* true or false its original done back; a record whose done is undefined
\* ends with done = false; likewise for the Items of a List.
C10_ToggleAllTwiceBoolean ==
    [][ /\ ToggleAllToDoLists(mounted) =>
             ToggledTwice(theLists, theLists', ListsToggledAgain)
        /\ ToggleAllToDoListItems(mounted) =>
             ToggledTwice(theItems, theItems', ItemsToggledAgain)
      ]_vars

C10_Witness ==
    /\ Called("toggleAllToDoLists")
    /\ Len(theLists) = 2
    /\ theLists[1].done = TRUE
    /\ theLists[2].done = FALSE
    /\ persisted = theLists

\* C11: clearDone is idempotent on the sequence of records: in the state
\* after a clear, a second clear leaves exactly the same records in the same
\* order; likewise for clear on the Items of a List.
C11_ClearIdempotent ==
    /\ Called("clearToDoLists") =>
          clearToDoLists(theStore, Effects(localStorage, log[1])).m.toDoLists
              = theLists
    /\ Called("clearToDoList") =>
          toDoListOf(clearToDoList(theStore, Effects(localStorage, log[1]),
                                   now).m).items = theItems

C11_Witness ==
    /\ Called("clearToDoLists")
    /\ Len(theLists) = 1
    /\ theLists[1].created = toJSON(StartClock)
    /\ persisted = theLists

\* The Lists at the positions of the rows the mounted view, showing all
\* Lists, does not display as done.
NotDisplayedDone ==
    LET pending(i) == rowsMounted[i].class # "done"
        kept == SelectSeq([i \in 1..Len(theLists) |-> i], pending)
    IN  [k \in 1..Len(kept) |-> theLists[kept[k]]]

\* The Lists a clear removes are those the view counted and displayed as
\* done.
RemovedAsRendered ==
    Len(theLists) > 0 =>
        /\ Len(rowsMounted) = Len(theLists)
        /\ theLists' = NotDisplayedDone
        /\ Len(theLists) - Len(theLists') = views[mounted].count[3]

\* C12, as claimed: clearDone removes exactly the Lists whose done is true
\* and keeps every other List, also one whose done is neither true nor
\* false; the Lists removed are those the view counts and displays as done.
C12_ClearRemovesTrue ==
    [][ ClearToDoLists(mounted) =>
            /\ theLists' = Filter(theLists, DoneIsNotTrue)
            /\ RemovedAsRendered
      ]_vars

\* C12, amended: clearDone keeps exactly the Lists whose done is false, in
\* order and unchanged, and removes every other List, those whose done is
\* true and those whose done is undefined; the Lists removed are those the
\* view counts and displays as done.
C12_ClearRemovesNotFalse ==
    [][ ClearToDoLists(mounted) =>
            LET pending(toDoList) == /\ "done" \in DOMAIN toDoList
                                     /\ toDoList.done = FALSE
            IN  /\ theLists' = SelectSeq(theLists, pending)
                /\ persisted' = theLists'
                /\ RemovedAsRendered
      ]_vars

\* A clear removed the only List, whose done was undefined: the summary of
\* the last non-empty render had counted it as pending and as done.
C12_Witness ==
    /\ Called("clearToDoLists")
    /\ theLists = << >>
    /\ persisted = << >>
    /\ views[mounted].count = << 1, 1, 1 >>

\* The mounted Store is a single-List Store that found its List.
Addressed == IsList(mounted) /\ theStore.ref > 0

\* An Item operation of the mounted single-List Store.
ItemOperation ==
    \/ \E text \in Texts : CreateToDoListItem(mounted, text)
    \/ \E id \in ItemIds(mounted), text \in NewTexts :
            UpdateToDoListItem(mounted, id, text)
    \/ \E id \in ItemIds(mounted) : DeleteToDoListItem(mounted, id)
    \/ \E id \in ItemIds(mounted) : ToggleToDoListItem(mounted, id)
    \/ ToggleAllToDoListItems(mounted)
    \/ ClearToDoList(mounted)

\* The step persisted the whole in-memory Collection, in which the Lists at
\* the positions `touched` got lastUpdated = the current instant and the
\* Store's new Items, and every other List is as it was.
StoredTouching(touched) ==
    /\ \E i \in 1..Len(log') :
          log'[i] = [ev |-> "setItem", value |-> stringify(theLists')]
    /\ persisted' = theLists'
    /\ Len(persisted') = Len(persisted)
    /\ \A i \in 1..Len(persisted) :
          IF i \in touched
          THEN /\ persisted'[i].lastUpdated = toJSON(now')
               /\ persisted'[i].items = theItems'
               /\ SameBut(persisted[i], persisted'[i], {"lastUpdated", "items"})
          ELSE persisted'[i] = persisted[i]

\* C13, as claimed: in a single-List Store constructed with an id present in
\* the Collection, every Item operation sets lastUpdated of the parent List
\* to the current instant, writes the parent's new Items into the
\* Collection, persists the whole Collection, and leaves every other List
\* unchanged.
C13_ItemOperationTouchesParent ==
    [][ (Addressed /\ ItemOperation) => StoredTouching({theStore.ref})
      ]_vars

\* C13, amended: every Item operation sets lastUpdated to the current
\* instant and writes the new Items on every List carrying the Store's id,
\* the parent and any List created in the same millisecond as the parent,
\* persists the whole Collection, and leaves every List carrying another id
\* unchanged.
C13_ItemOperationTouchesId ==
    [][ (Addressed /\ ItemOperation) =>
            StoredTouching({i \in 1..Len(persisted) :
                                persisted[i].id = theStore.toDoListId})
      ]_vars

\* An Item was created in a List whose id a second List carries too.
C13_Witness ==
    /\ Called("createToDoListItem")
    /\ Len(persisted) = 2
    /\ persisted[1].id = persisted[2].id
    /\ Len(theItems) = 1
    /\ persisted[2].items = theItems
    /\ persisted[2].lastUpdated = toJSON(now)

\* The log holds no write to localStorage.
NothingWritten == \A i \in 1..Len(log) : log[i].ev # "setItem"

\* C14: constructing the single-List Store with an id carried by no List of
\* the Collection (the Collection may be empty, the id missing or
\* non-numeric) yields the invalid state: an empty Items sequence and a List
\* payload without id, which the view reports as an invalid id; the
\* construction writes nothing to localStorage.
C14_InvalidState ==
    log[1].ev = "construct" =>
        /\ theItems = << >>
        /\ "id" \notin DOMAIN InitialPayload(theStore)
        /\ theLists = persisted
        /\ NothingWritten
        /\ views[mounted].rows = << >>
        /\ views[mounted].message = "Invalid ID! Your entries won't be stored!"

\* The Store was constructed with a non-numeric id over two Lists.
C14_Witness ==
    /\ log[1] = [ev |-> "construct", kind |-> "list", id |-> NonNumeric]
    /\ theStore.toDoListId = NaN
    /\ Len(persisted) = 2
    /\ now = MaxClock

\* C15: in the invalid state of the single-List Store every Item operation
\* runs to its end, and the Collection it persists is the Collection loaded
\* at construction: the Store's Collection and the persisted one stay as
\* they were, whatever the operation did to the Items in memory.
C15_InvalidLosesMutations ==
    [][ (IsList(mounted) /\ theStore.ref = 0 /\ ItemOperation) =>
            /\ theLists' = theLists
            /\ persisted' = persisted
            /\ persisted' = theLists'
            /\ \E i \in 1..Len(log') :
                  log'[i] = [ev |-> "setItem", value |-> stringify(persisted)]
            /\ log'[Len(log')].ev = "changed"
            /\ theStore'.ref = 0
      ]_vars

\* Two Items were created in the invalid state over a Collection of two
\* Lists, which holds neither.
C15_Witness ==
    /\ Called("createToDoListItem")
    /\ theStore.ref = 0
    /\ Len(theItems) = 2
    /\ Len(persisted) = 2
    /\ \A i \in 1..Len(persisted) : persisted[i].items = << >>
    /\ getItem(localStorage, "toDoLists") = stringify(theLists)

\* The sequence the mounted view renders, the property its rows show, and
\* the selected filter.
theSequence == IF IsLists(mounted) THEN theLists ELSE theItems

theLabel == IF IsLists(mounted) THEN "name" ELSE "text"

theFilter == IF hash = "" THEN "#all" ELSE hash

\* done != true, done != false: a record without done satisfies both.
IsPending(r) == ~("done" \in DOMAIN r /\ r.done = TRUE)

IsDone(r) == ~("done" \in DOMAIN r /\ r.done = FALSE)

\* The subsequence of the rendered sequence the selected filter displays.
theSubsequence ==
    IF theFilter = "#pending" THEN SelectSeq(theSequence, IsPending)
    ELSE IF theFilter = "#done" THEN SelectSeq(theSequence, IsDone)
    ELSE theSequence

\* C16: for every non-empty sequence and every filter, the rows displayed
\* are exactly the full, the pending or the done subsequence, in the
\* original order, while the summary reads "{total} ({pending}/{done})"
\* counted on the unfiltered sequence; Items [A pending, B done] under the
\* filter pending display [A] with the summary "2 (1/1)".
C16_FilteredRowsFullCounts ==
    /\ Len(theSequence) > 0 =>
          /\ Len(rowsMounted) = Len(theSubsequence)
          /\ \A i \in 1..Len(rowsMounted) :
                /\ rowsMounted[i].id = theSubsequence[i].id
                /\ rowsMounted[i].text = theSubsequence[i][theLabel]
          /\ SummaryText(views[mounted].count) =
                SummaryText(<< Len(theSequence),
                               Len(SelectSeq(theSequence, IsPending)),
                               Len(SelectSeq(theSequence, IsDone)) >>)
    /\ ( /\ IsList(mounted)
         /\ hash = "#pending"
         /\ Len(theItems) = 2
         /\ DoneIsFalse(theItems[1])
         /\ DoneIsTrue(theItems[2]) ) =>
          /\ Len(rowsMounted) = 1
          /\ rowsMounted[1].id = theItems[1].id
          /\ SummaryText(views[mounted].count) = "2 (1/1)"

\* Items [A pending, B done] rendered under the filter pending.
C16_Witness ==
    /\ IsList(mounted)
    /\ hash = "#pending"
    /\ Len(theItems) = 2
    /\ theItems[1].id # theItems[2].id
    /\ DoneIsFalse(theItems[1])
    /\ DoneIsTrue(theItems[2])
    /\ Len(rowsMounted) = 1

\* The records of the rendered sequence whose done is neither true nor
\* false.
Undefined == SelectSeq(theSequence, LAMBDA r : "done" \notin DOMAIN r)

\* C17: in the summary of a rendered sequence the pending and done counts
\* add up to the total exactly when no record has an undefined done; each
\* such record is counted as pending and as done, so the sum exceeds the
\* total by their number.
C17_CountsInflated ==
    Len(theSequence) > 0 =>
        LET count == views[mounted].count
        IN  /\ count[1] = Len(theSequence)
            /\ count[2] + count[3] = count[1] + Len(Undefined)
            /\ (count[2] + count[3] = count[1]) <=> (Len(Undefined) = 0)

\* Two Lists, one loaded without done: counted "2 (2/1)".
C17_Witness ==
    /\ IsLists(mounted)
    /\ Len(theLists) = 2
    /\ Len(Undefined) = 1
    /\ views[mounted].count = << 2, 2, 1 >>

\* C18: after every render of a non-empty sequence the footer is shown and
\* the clear button is visible if and only if the done count of the
\* unfiltered sequence is greater than 0, whatever the selected filter;
\* after a render of an empty sequence the whole footer is hidden.
C18_ClearVisibleIffDone ==
    IF Len(theSequence) > 0
    THEN /\ ~views[mounted].footerHidden
         /\ ~views[mounted].clearHidden
                <=> Len(SelectSeq(theSequence, IsDone)) > 0
    ELSE views[mounted].footerHidden

\* Under the filter pending no done record is displayed, and the clear
\* button is visible.
C18_Witness ==
    /\ hash = "#pending"
    /\ Len(theSequence) = 2
    /\ Len(rowsMounted) = 1
    /\ DoneIsTrue(theSequence[2])
    /\ ~views[mounted].clearHidden
    /\ ~views[mounted].footerHidden

\* The preview the Collection view would embed for the id attribute `id`,
\* constructed over the Collection as persisted.
thePreview(id) == VanillaToDoListPreview(localStorage, id)

\* The List the preview of `id` loads.
thePreviewed(id) == toDoListOf(VanillaToDoListPreviewModel(localStorage, id))

\* C19: render shows a placeholder message if and only if the full sequence
\* is empty; a non-empty sequence whose filtered subset is empty shows none.
\* In the single-List view and in the preview the placeholder is the
\* invalid-addressing message exactly when the List payload carries no id,
\* and the genuinely-empty message otherwise.
C19_PlaceholderIffEmpty ==
    /\ views[mounted].message # "none" <=> Len(theSequence) = 0
    /\ (IsLists(mounted) /\ Len(theLists) = 0) =>
          views[mounted].message = "There are no to-do lists to show!"
    /\ (IsList(mounted) /\ Len(theItems) = 0) =>
          views[mounted].message =
              IF "id" \in DOMAIN toDoListOf(theStore)
              THEN "Good for you: There's nothing to do!"
              ELSE "Invalid ID! Your entries won't be stored!"
    /\ \A id \in Attributes :
          /\ thePreview(id).message # "none" <=> Len(thePreviewed(id).items) = 0
          /\ Len(thePreviewed(id).items) = 0 =>
                thePreview(id).message =
                    IF "id" \in DOMAIN thePreviewed(id)
                    THEN "Good for you: There's nothing to do!"
                    ELSE "Invalid ID!"

\* One Item, pending, under the filter done: no row and no placeholder;
\* the preview of another List is genuinely empty, that of a missing id is
\* invalid.
C19_Witness ==
    /\ IsList(mounted)
    /\ hash = "#done"
    /\ Len(theItems) = 1
    /\ rowsMounted = << >>
    /\ views[mounted].message = "none"
    /\ \E id \in Attributes :
          thePreview(id).message = "Good for you: There's nothing to do!"
    /\ thePreview(NoAttribute).message = "Invalid ID!"

\* No List name and no Item text of the Collection is empty or all
\* whitespace.
NoBlankText(toDoLists) ==
    \A i \in 1..Len(toDoLists) :
        /\ Len(toDoLists[i].name) > 0
        /\ \E k \in 1..Len(toDoLists[i].name) :
              toDoLists[i].name[k] \notin Whitespace
        /\ \A j \in 1..Len(toDoLists[i].items) :
              /\ Len(toDoLists[i].items[j].text) > 0
              /\ \E k \in 1..Len(toDoLists[i].items[j].text) :
                    toDoLists[i].items[j].text[k] \notin Whitespace

\* The value is empty or holds whitespace only.
Blank(value) == \A k \in 1..Len(value) : value[k] \in Whitespace

\* The last List of the Collection the Store's create gives when called
\* directly with `name`.
CreatedDirectly(name) ==
    LET toDoLists == createToDoList(VanillaToDoListsModel(localStorage),
                                    Effects(localStorage, << >>),
                                    name, now).m.toDoLists
    IN  toDoLists[Len(toDoLists)]

\* C20: a create or rename/update intent whose text is empty or
\* whitespace-only is rejected by the input binding: no Store operation is
\* invoked, and the in-memory and the persisted Collection stay as they
\* were.  So, from the empty Collection on, no List name and no Item text is
\* ever empty or whitespace-only, although the Store, called directly,
\* accepts such a string.
C20_BlankInputRejected ==
    /\ [][ \A value \in Values :
              ( /\ Blank(value)
                /\ \/ KeydownCreate(value)
                   \/ \E i \in 1..MaxLists : KeydownUpdate(i, value) )
              => /\ stores' = stores
                 /\ localStorage' = localStorage
                 /\ \A k \in 1..Len(log') : log'[k].ev \notin {"call", "setItem"}
         ]_vars
    /\ [] ( /\ NoBlankText(theLists)
            /\ NoBlankText(persisted)
            /\ \A value \in Values : CreatedDirectly(value).name = value )

\* A whitespace-only value was typed over a non-empty Collection and
\* ignored.
C20_Witness ==
    /\ log[1] = [ev |-> "keydown", value |-> << "\t", " " >>]
    /\ Len(persisted) = 2
    /\ \E i \in 1..Len(persisted) : Len(persisted[i].items) > 0

\* A Collection Store operation that keeps the Lists it addresses.
KeepingOperation ==
    \/ \E id \in ListIds(mounted), name \in NewTexts :
            UpdateToDoList(mounted, id, name)
    \/ \E id \in ListIds(mounted) : ToggleToDoList(mounted, id)
    \/ ToggleAllToDoLists(mounted)

\* Every List of `after` has the done of the List at its place in `before`.
ListsDoneKept(before, after) ==
    /\ Len(after) = Len(before)
    /\ \A i \in 1..Len(before) : SameDone(before[i], after[i])

\* Every List of `after` has the Items of the List at its place in `before`.
ItemsKept(before, after) ==
    /\ Len(after) = Len(before)
    /\ \A i \in 1..Len(before) : after[i].items = before[i].items

\* C21: a List's done and its Items' done are independent: no Item operation
\* of the single-List Store changes the done of the parent or of any other
\* List, in memory or persisted, and no Collection Store operation that
\* keeps a List (rename, toggle, toggleAll) changes the Items of any List,
\* their done flags included.
C21_DoneIndependent ==
    [][ /\ (IsList(mounted) /\ ItemOperation) =>
             /\ ListsDoneKept(theLists, theLists')
             /\ ListsDoneKept(persisted, persisted')
        /\ KeepingOperation =>
             /\ ItemsKept(theLists, theLists')
             /\ ItemsKept(persisted, persisted')
      ]_vars

\* Both Items of a List were toggled to done, and the List is still pending.
C21_Witness ==
    /\ Called("toggleAllToDoListItems")
    /\ theStore.ref > 0
    /\ Len(theItems) = 2
    /\ \A i \in 1..2 : DoneIsTrue(theItems[i])
    /\ DoneIsFalse(persisted[theStore.ref])
    /\ persisted[theStore.ref].items = theItems

\* Record `after` has the properties `keys` exactly as record `before`.
Kept(before, after, keys) ==
    \A k \in keys :
        /\ (k \in DOMAIN after) = (k \in DOMAIN before)
        /\ k \in DOMAIN before => after[k] = before[k]

\* Every record of `after` is a record of `before`, untouched.
Remaining(before, after) ==
    \A j \in 1..Len(after) : \E i \in 1..Len(before) : after[j] = before[i]

\* `after` is `before` with one record appended, created now with its
\* other timestamps (`unset`) null.
Created(before, after, unset) ==
    /\ Len(after) = Len(before) + 1
    /\ SubSeq(after, 1, Len(before)) = before
    /\ after[Len(after)].id = getTime(now)
    /\ after[Len(after)].created = toJSON(now)
    /\ \A k \in unset : after[Len(after)][k] = null

\* The records correspond place by place, and each keeps `keys`.
AllKept(before, after, keys) ==
    /\ Len(after) = Len(before)
    /\ \A i \in 1..Len(before) : Kept(before[i], after[i], keys)

\* C22: timestamp bookkeeping, step by step.  A record is created with
\* created = the current instant and lastRenamed/lastUpdated unset; a
\* List's lastRenamed is set by a rename that matches it and changed by no
\* other operation; an Item's lastUpdated is set by an update of that Item
\* and by no toggle or toggleAll; a List's lastUpdated is changed by the
\* Item operations of a Store opened on its id and by nothing else; no step
\* turns a set timestamp null; id and created of a record never change.
C22_Timestamps ==
    [][ /\ \A name \in Texts :
             CreateToDoList(mounted, name) =>
                 Created(theLists, theLists', {"lastRenamed", "lastUpdated"})
        /\ \A id \in ListIds(mounted), name \in NewTexts :
             UpdateToDoList(mounted, id, name) =>
                 /\ Len(theLists') = Len(theLists)
                 /\ \A i \in 1..Len(theLists) :
                       IF theLists[i].id = id
                       THEN /\ theLists'[i].lastRenamed = toJSON(now)
                            /\ Kept(theLists[i], theLists'[i],
                                    {"id", "created", "lastUpdated"})
                       ELSE theLists'[i] = theLists[i]
        /\ ( \/ \E id \in ListIds(mounted) : ToggleToDoList(mounted, id)
             \/ ToggleAllToDoLists(mounted) ) =>
               AllKept(theLists, theLists',
                       {"id", "created", "lastRenamed", "lastUpdated"})
        /\ ( \/ \E id \in ListIds(mounted) : DeleteToDoList(mounted, id)
             \/ ClearToDoLists(mounted) ) =>
               Remaining(theLists, theLists')
        /\ (IsList(mounted) /\ ItemOperation) =>
             /\ AllKept(theLists, theLists', {"id", "created", "lastRenamed"})
             /\ \A i \in 1..Len(theLists) :
                   IF StrictEquals(theLists[i].id, theStore.toDoListId)
                   THEN theLists'[i].lastUpdated = toJSON(now')
                   ELSE Kept(theLists[i], theLists'[i], {"lastUpdated"})
        /\ \A text \in Texts :
             CreateToDoListItem(mounted, text) =>
                 Created(theItems, theItems', {"lastUpdated"})
        /\ \A id \in ItemIds(mounted), text \in NewTexts :
             UpdateToDoListItem(mounted, id, text) =>
                 /\ Len(theItems') = Len(theItems)
                 /\ \A i \in 1..Len(theItems) :
                       IF theItems[i].id = id
                       THEN /\ theItems'[i].lastUpdated = toJSON(now)
                            /\ Kept(theItems[i], theItems'[i], {"id", "created"})
                       ELSE theItems'[i] = theItems[i]
        /\ ( \/ \E id \in ItemIds(mounted) : ToggleToDoListItem(mounted, id)
             \/ ToggleAllToDoListItems(mounted) ) =>
               AllKept(theItems, theItems', {"id", "created", "lastUpdated"})
        /\ ( \/ \E id \in ItemIds(mounted) : DeleteToDoListItem(mounted, id)
             \/ ClearToDoList(mounted) ) =>
               Remaining(theItems, theItems')
      ]_vars

\* An Item that had been updated was toggled: it kept its lastUpdated, and
\* its List, never renamed, got lastUpdated = the current instant.
C22_Witness ==
    /\ Called("toggleToDoListItem")
    /\ theStore.ref > 0
    /\ Len(theItems) = 2
    /\ theItems[1].id = log[1].id
    /\ DoneIsTrue(theItems[1])
    /\ theItems[1].lastUpdated # null
    /\ theItems[1].lastUpdated # toJSON(now)
    /\ theItems[2].lastUpdated = null
    /\ persisted[theStore.ref].lastRenamed = null
    /\ persisted[theStore.ref].lastUpdated = toJSON(now)

\* The ids of the records of an array are pairwise distinct.
Distinct(array) ==
    \A i, j \in 1..Len(array) : i # j => array[i].id # array[j].id

\* No record of the array was created at the current clock value.
Advanced(array) == \A i \in 1..Len(array) : array[i].id # getTime(now)

\* The ids of the Collection, and the Item ids within each List and within
\* the mounted Store's List, are pairwise distinct.
AllDistinct ==
    /\ Distinct(theLists)
    /\ \A i \in 1..Len(theLists) : Distinct(theLists[i].items)
    /\ IsList(mounted) => Distinct(theItems)

\* Every record carries the instant of its creation as its id, and none is
\* of the future.
IdIsCreated(array) ==
    \A i \in 1..Len(array) :
        /\ array[i].created = toJSON(array[i].id)
        /\ array[i].id <= getTime(now)

\* The array holds two records created at the current clock value.
Collided(array) ==
    \E i, j \in 1..Len(array) :
        /\ i # j
        /\ array[i].id = getTime(now)
        /\ array[j].id = getTime(now)

\* C23: the id of a created record is the clock value at its creation, and
\* no uniqueness check is made.  A create while the clock has advanced past
\* the creation of every record present keeps the ids pairwise distinct, as
\* does every other operation; a create at the clock value of a record
\* present appends a second record with that id, and both are kept, in
\* memory and persisted.
C23_IdsFromClock ==
    /\ [][ /\ ( /\ AllDistinct
                /\ (\E name \in Texts : CreateToDoList(mounted, name))
                       => Advanced(theLists)
                /\ (\E text \in Texts : CreateToDoListItem(mounted, text))
                       => Advanced(theItems) )
              => AllDistinct'
           /\ \A name \in Texts :
                CreateToDoList(mounted, name) =>
                    /\ theLists'[Len(theLists')].id = getTime(now)
                    /\ Len(theLists') = Len(theLists) + 1
                    /\ persisted' = theLists'
                    /\ ~Advanced(theLists) => Collided(theLists')
           /\ \A text \in Texts :
                CreateToDoListItem(mounted, text) =>
                    /\ theItems'[Len(theItems')].id = getTime(now)
                    /\ Len(theItems') = Len(theItems) + 1
                    /\ ~Advanced(theItems) => Collided(theItems')
         ]_vars
    /\ [] ( /\ IdIsCreated(theLists)
            /\ \A i \in 1..Len(theLists) : IdIsCreated(theLists[i].items)
            /\ IsList(mounted) => IdIsCreated(theItems) )

\* Two Lists were created at the same clock value: both are persisted, with
\* the same id.
C23_Witness ==
    /\ Called("createToDoList")
    /\ Len(persisted) = 2
    /\ persisted[1].id = getTime(now)
    /\ persisted[2].id = getTime(now)
    /\ getTime(now) > StartClock
    /\ persisted = theLists

\* The sequence Store m hands to its view.
SequenceOf(m) == IF m.kind = "lists" THEN m.toDoLists ELSE toDoListOf(m).items

\* The rows of the DOM show, under the filter "all", the records of Store m
\* with the class of their done: no row is flipped ahead of its record.
Idle(m, dom) ==
    /\ Len(dom.rows) = Len(SequenceOf(m))
    /\ \A i \in 1..Len(SequenceOf(m)) :
          /\ dom.rows[i].id = SequenceOf(m)[i].id
          /\ dom.rows[i].class =
                IF DoneIsFalse(SequenceOf(m)[i]) THEN "pending" ELSE "done"

\* The events `ev` of a log.
Events(events, ev) == SelectSeq(events, LAMBDA e : e.ev = ev)

\* The log of a call of the toggle of Store instance s with `id`.
ToggleCalled(events, s, id) ==
    /\ events[1].ev = "call"
    /\ events[1].op \in {"toggleToDoList", "toggleToDoListItem"}
    /\ events[1].store = s
    /\ events[1].id = id

\* C24: the toggle of a row.  A click on the checkbox flips the classes of
\* the row at once, calls no Store operation and leaves every Store and
\* localStorage as they were; it sets one timeout of long = 2 * short for
\* the row's id.  The Store's toggle is called only by the callback of such
\* a timeout, once, with that id, and the render that follows it leaves
\* the rows of its view Idle.  No timeout is ever cleared: every timeout set
\* is eventually run.
C24_ToggleSettles ==
    /\ [][ /\ \A i \in 1..MaxLists :
                ClickToggle(i) =>
                    /\ rowsMounted'[i].class # rowsMounted[i].class
                    /\ stores' = stores
                    /\ localStorage' = localStorage
                    /\ Events(log', "call") = << >>
                    /\ timers' = Append(timers,
                                        [store |-> mounted,
                                         op    |-> "toggle",
                                         id    |-> ToNumber(rowsMounted[i].id),
                                         delay |-> 2 * short])
           /\ (Timeout /\ Head(timers).op = "toggle") =>
                /\ ToggleCalled(log', Head(timers).store, Head(timers).id)
                /\ Len(Events(log', "call")) = 1
                /\ Len(Events(log', "setItem")) = 1
                /\ Len(Events(log', "changed")) = 1
                /\ timers' = Tail(timers)
                /\ Idle(stores'[Head(timers).store], views'[Head(timers).store])
           /\ Len(timers') < Len(timers) => Timeout
           /\ (stores' # stores /\ \E s \in 1..MaxStores, id \in 0..MaxClock :
                                      ToggleCalled(log', s, id)) => Timeout
         ]_vars
    /\ \A s \in 1..MaxStores, id \in 1..MaxClock :
          (timers # << >> /\ Head(timers).store = s /\ Head(timers).op = "toggle"
              /\ Head(timers).id = id)
          ~> ToggleCalled(log, s, id)

\* The timeout of a click on the second List's checkbox ran: the List is
\* done, persisted, and its row shows it.
C24_Witness ==
    /\ ToggleCalled(log, mounted, 2)
    /\ IsLists(mounted)
    /\ timers = << >>
    /\ Len(theLists) = 2
    /\ DoneIsTrue(theLists[2])
    /\ DoneIsFalse(theLists[1])
    /\ persisted = theLists
    /\ rowsMounted[2].class = "done"
    /\ Idle(theStore, views[mounted])

\* The done of the persisted records carrying `id`, in order: of the Lists
\* when Store instance s is a Collection Store, of the Items of its List
\* otherwise.
PersistedDone(storage, s, id) ==
    LET m == IF IsLists(s) THEN VanillaToDoListsModel(storage)
             ELSE VanillaToDoListModel(storage, stores[s].toDoListId)
        carrying == SelectSeq(SequenceOf(m), LAMBDA r : r.id = id)
    IN  [i \in 1..Len(carrying) |->
            IF "done" \in DOMAIN carrying[i] THEN << carrying[i].done >>
            ELSE << >>]

\* C25: after two clicks on the same row's checkbox within one settle
\* delay, only the settled state is persisted: while the timeout of the
\* second click is still pending, the callback of the first writes no
\* changed done of that record to localStorage.
C25_DoubleClickPersistsFinal ==
    [][ ( /\ Len(timers) = 2
          /\ timers[1] = timers[2]
          /\ timers[1].op = "toggle"
          /\ Timeout )
        => PersistedDone(localStorage', timers[1].store, timers[1].id)
               = PersistedDone(localStorage, timers[1].store, timers[1].id)
      ]_vars

\* C26: a click on "yes" while the confirmation is awaited calls the
\* Store's clear operation exactly once, with one write to localStorage and
\* one change notification, and hides the confirmation, however many times
\* "clear" and "no" were clicked before.
C26_YesClearsOnce ==
    [][ ClickYes =>
            /\ Len(Events(log', "call")) = 1
            /\ Len(Events(log', "setItem")) = 1
            /\ Len(Events(log', "changed")) = 1
            /\ views'[mounted].confirmationHidden
      ]_vars

\* The log holds a call of the Store's clear operation.
ClearCalled(events) ==
    \E k \in 1..Len(events) :
        /\ events[k].ev = "call"
        /\ events[k].op \in {"clearToDoLists", "clearToDoList"}

\* The step called no Store operation and wrote nothing: every Store and
\* localStorage are as they were.
NoStoreOperation ==
    /\ stores' = stores
    /\ localStorage' = localStorage
    /\ Events(log', "call") = << >>
    /\ Events(log', "setItem") = << >>

\* C27: a click on "clear" brings up the confirmation in place of the clear
\* button, and a click on "no" hides it and shows the clear button again;
\* neither calls a Store operation, and the in-memory and the persisted
\* Collection stay as they were.  The Store's clear operation is called by
\* a click on "yes" only, "yes" takes a click only while the confirmation
\* is displayed, and only a click on "clear" displays it.
C27_NoKeepsAll ==
    [][ /\ ClickClear =>
             /\ NoStoreOperation
             /\ ~views'[mounted].confirmationHidden
             /\ views'[mounted].clearHidden
        /\ ClickNo =>
             /\ NoStoreOperation
             /\ views'[mounted].confirmationHidden
             /\ ~views'[mounted].clearHidden
             /\ ~views'[mounted].footerHidden
        /\ ClearCalled(log') =>
             /\ ClickYes
             /\ ~views[mounted].confirmationHidden
             /\ ~views[mounted].footerHidden
        /\ (views[mounted].confirmationHidden
                /\ ~views'[mounted].confirmationHidden) => ClickClear
      ]_vars

\* "clear" and then "no" were clicked over two Lists, one of them done: both
\* are still there, persisted, and the clear button is displayed again.
C27_Witness ==
    /\ log = Clicked("no")
    /\ IsLists(mounted)
    /\ Len(theLists) = 2
    /\ DoneIsTrue(theLists[1])
    /\ persisted = theLists
    /\ views[mounted].confirmationHidden
    /\ ~views[mounted].clearHidden
    /\ ~views[mounted].footerHidden
    /\ views[mounted].no = 1

\* Every row of the DOM carries one click listener on its checkbox, on its
\* edit button and on its delete button, and, in the Collection view, one
\* on its link.
BoundOnce(m, dom) ==
    \A i \in 1..Len(dom.rows) :
        /\ dom.rows[i].select = 1
        /\ dom.rows[i].edit = 1
        /\ dom.rows[i].delete = 1
        /\ dom.rows[i].link = IF m.kind = "lists" THEN 1 ELSE 0

\* C28: after every render, the first, one after a change notification or
\* one after a change of the filter, every displayed row carries exactly
\* one listener per control: listeners never add up on a row, and no row is
\* left without.  So a click on a row's delete button calls the Store's
\* delete once, with the row's id, and a click on its checkbox sets one
\* timeout for the row's id.
C28_RowsBoundOnce ==
    /\ [] \A s \in 1..Len(stores) : BoundOnce(stores[s], views[s])
    /\ [][ /\ \A i \in 1..MaxLists :
                ClickDelete(i) =>
                    /\ Len(Events(log', "call")) = 1
                    /\ log'[1].op \in {"deleteToDoList", "deleteToDoListItem"}
                    /\ log'[1].id = ToNumber(rowsMounted[i].id)
           /\ \A i \in 1..MaxLists :
                SelectClicked(i) =>
                    /\ Len(timers') = Len(timers) + 1
                    /\ timers'[Len(timers')].id = ToNumber(rowsMounted[i].id)
                    /\ SubSeq(timers', 1, Len(timers)) = timers
         ]_vars

\* The filter was changed to "done" over two records: the one row
\* displayed is bound once.
C28_Witness ==
    /\ log[1].ev = "hashchange"
    /\ hash = "#done"
    /\ Len(theSequence) = 2
    /\ Len(rowsMounted) = 1
    /\ rowsMounted[1].select = 1
    /\ rowsMounted[1].edit = 1
    /\ rowsMounted[1].delete = 1

\* The subsequence of a sequence the filter of hash h displays.
Displayed(sequence, h) ==
    IF h = "#pending" THEN SelectSeq(sequence, IsPending)
    ELSE IF h = "#done" THEN SelectSeq(sequence, IsDone)
    ELSE sequence

\* The rows of the DOM are those of `sequence`, in order.
RowsOf(dom, sequence) ==
    /\ Len(dom.rows) = Len(sequence)
    /\ \A i \in 1..Len(sequence) :
          /\ dom.rows[i].id = sequence[i].id
          /\ dom.rows[i].class =
                IF DoneIsFalse(sequence[i]) THEN "pending" ELSE "done"

\* C29: a change of the hash while the component is mounted has one effect:
\* the view is rendered once, from the Store's in-memory data under the new
\* filter, and its rows are bound once.  localStorage is neither read nor
\* written, no Store is constructed and no Store operation is called, and
\* the Store is as it was, also where its data differ from the persisted
\* Collection.
C29_HashChangeRenders ==
    [][ \A h \in Hashes :
            HashChange(h) =>
                /\ localStorage' = localStorage
                /\ stores' = stores
                /\ now' = now
                /\ timers' = timers
                /\ log' = << [ev |-> "hashchange", hash |-> h] >>
                /\ RowsOf(views'[mounted], Displayed(theSequence, h))
                /\ BoundOnce(theStore, views'[mounted])
                /\ views'[mounted].selected = IF h = "" THEN "#all" ELSE h
                /\ \A s \in 1..Len(stores) : s # mounted => views'[s] = views[s]
      ]_vars

\* The filter was changed over a Store in the invalid state holding an
\* Item that was never persisted: the Item is displayed.
C29_Witness ==
    /\ log = << [ev |-> "hashchange", hash |-> "#pending"] >>
    /\ IsList(mounted)
    /\ theStore.ref = 0
    /\ Len(theItems) = 1
    /\ Len(rowsMounted) = 1
    /\ Len(persisted) = 2
    /\ \A i \in 1..Len(persisted) : persisted[i].items = << >>

\* The Items of the persisted List the id attribute `id` addresses, none
\* where it addresses no List.
PersistedItems(storage, id) ==
    LET toDoLists == loadToDoLists(storage)
        at == {i \in 1..Len(toDoLists) :
                   StrictEquals(toDoLists[i].id, ToNumber(id))}
    IN  IF at = {} THEN << >>
        ELSE LET first == CHOOSE i \in at : \A j \in at : i <= j
             IN  IF "items" \in DOMAIN toDoLists[first]
                 THEN toDoLists[first].items ELSE << >>

\* The preview DOM shows every Item of `items` and the counts of all of
\* them.
ShowsAll(dom, items) ==
    /\ Len(dom.rows) = Len(items)
    /\ \A i \in 1..Len(items) :
          /\ dom.rows[i].id = items[i].id
          /\ dom.rows[i].text = items[i].text
          /\ dom.rows[i].class = IF DoneIsFalse(items[i]) THEN "pending"
                                 ELSE "done"
    /\ Len(items) > 0 =>
          /\ ~dom.footerHidden
          /\ dom.count = << Len(items),
                            Len(SelectSeq(items, IsPending)),
                            Len(SelectSeq(items, IsDone)) >>

\* C30: constructing a preview leaves localStorage, every Store and every
\* view as they were, and the preview built shows all Items of the
\* persisted List its id addresses, with the counts of all of them,
\* under every filter; so does the preview of every id in every state.
C30_PreviewReadOnly ==
    /\ [][ \A id \in Attributes :
               ConnectPreview(id) =>
                   /\ localStorage' = localStorage
                   /\ stores' = stores
                   /\ views' = views
                   /\ hash' = hash
                   /\ log'[1].ev = "preview"
                   /\ ShowsAll(log'[1].dom, PersistedItems(localStorage, id))
         ]_vars
    /\ [](\A id \in Attributes :
              ShowsAll(thePreview(id), PersistedItems(localStorage, id)))

\* Under the filter done the List view shows one row of its two Items; a
\* preview constructed for the same List shows both.
C30_Witness ==
    /\ log[1].ev = "preview"
    /\ hash = "#done"
    /\ IsList(mounted)
    /\ theStore.ref > 0
    /\ ToNumber(log[1].id) = theStore.toDoListId
    /\ Len(theItems) = 2
    /\ Len(rowsMounted) = 1
    /\ Len(log[1].dom.rows) = 2
    /\ log[1].dom.count = << 2, 1, 1 >>

\* What a record is told apart by, whatever is changed in it: its id and
\* its date of creation.
Identity(r) == << r.id, r.created >>

Order(array) == [i \in 1..Len(array) |-> Identity(array[i])]

\* Sequence a is b with some of its elements left out.
RECURSIVE IsSubsequence(_, _)
IsSubsequence(a, b) ==
    IF a = << >> THEN TRUE
    ELSE IF b = << >> THEN FALSE
    ELSE IF Head(a) = Head(b) THEN IsSubsequence(Tail(a), Tail(b))
         ELSE IsSubsequence(a, Tail(b))

\* `after` holds the records of `before` in their order and one more at
\* the end.
AppendedTo(before, after) ==
    /\ Len(after) = Len(before) + 1
    /\ SubSeq(Order(after), 1, Len(before)) = Order(before)

\* `after` holds records of `before` only, in their order.
RemainingInOrder(before, after) == IsSubsequence(Order(after), Order(before))

\* The records of an array are in the order of their creation.
InCreationOrder(array) ==
    \A i, j \in 1..Len(array) : i < j => array[i].id <= array[j].id

\* C31: the Collection is in creation order in every state, and so are the
\* Items of the mounted List.  A create appends one record at the end of
\* the records there were; every other operation leaves the remaining
\* records in the order they had.  The rows displayed under the filter all
\* are the records of the sequence, in its order.
C31_CreationOrder ==
    /\ [][ (log' # log /\ log'[1].ev = "call") =>
              /\ IF log'[1].op = "createToDoList"
                 THEN AppendedTo(theLists, theLists')
                 ELSE RemainingInOrder(theLists, theLists')
              /\ IsList(mounted) =>
                    IF log'[1].op = "createToDoListItem"
                    THEN AppendedTo(theItems, theItems')
                    ELSE RemainingInOrder(theItems, theItems')
         ]_vars
    /\ [](/\ InCreationOrder(theLists)
          /\ InCreationOrder(persisted)
          /\ IsList(mounted) => InCreationOrder(theItems)
          /\ hash \in {"", "#all"} =>
                /\ Len(rowsMounted) = Len(theSequence)
                /\ \A i \in 1..Len(theSequence) :
                      rowsMounted[i].id = theSequence[i].id)

\* The first of two Lists created at different dates was toggled and is
\* still the first, in the Collection and among the rows.
C31_Witness ==
    /\ Called("toggleToDoList")
    /\ Len(theLists) = 2
    /\ log[1].id = theLists[1].id
    /\ theLists[1].id < theLists[2].id
    /\ DoneIsTrue(theLists[1])
    /\ rowsMounted[1].class = "done"
    /\ rowsMounted[2].class = "pending"

\* The records of the rendered sequence at the positions of the rows the
\* mounted view, showing all of them, does not display as done.
NotShownDone ==
    LET pending(i) == rowsMounted[i].class # "done"
        kept == SelectSeq([i \in 1..Len(theSequence) |-> i], pending)
    IN  [k \in 1..Len(kept) |-> theSequence[kept[k]]]

\* C32: from an empty Collection, or one whose done flags are all true or
\* false, every record of every reachable state has a done that is true or
\* false, Lists and Items, in memory and as persisted; the summary of
\* every rendered sequence therefore has total = pending + done, and a
\* clear removes exactly the records the view displays as done, which are
\* the records whose done is true.
C32_DoneBoolean ==
    /\ [](/\ DoneIsBoolean(theLists)
          /\ DoneIsBoolean(persisted)
          /\ \A i \in 1..Len(theLists) : DoneIsBoolean(theLists[i].items)
          /\ IsList(mounted) => DoneIsBoolean(theItems)
          /\ Len(theSequence) > 0 =>
                LET count == views[mounted].count
                IN  /\ count[1] = Len(theSequence)
                    /\ count[1] = count[2] + count[3]
                    /\ Len(rowsMounted) = Len(theSequence))
    /\ [][ /\ ClearToDoLists(mounted) =>
                /\ theLists' = NotShownDone
                /\ theLists' = SelectSeq(theLists, DoneIsNotTrue)
           /\ ClearToDoList(mounted) =>
                /\ theItems' = NotShownDone
                /\ theItems' = SelectSeq(theItems, DoneIsNotTrue)
         ]_vars

\* A clear removed both Lists of the Collection: the last render of a
\* non-empty Collection had counted two Lists, none pending and two done.
C32_Witness ==
    /\ Called("clearToDoLists")
    /\ theLists = << >>
    /\ persisted = << >>
    /\ views[mounted].count = << 2, 0, 2 >>

\* The positions of an array whose record carries the id.
Carrying(array, id) == {i \in 1..Len(array) : array[i].id = id}

\* Two records of the array share an id.
Shared(array) ==
    \E i, j \in 1..Len(array) : i # j /\ array[i].id = array[j].id

\* C33: an operation addressed by an id acts on every record carrying the
\* id, also when two records share it: a rename renames each of them, a
\* toggle flips each of them, a delete removes each of them, for Lists and
\* for Items; and an Item operation of a single-List Store that found its
\* List writes the Store's Items into every List carrying the Store's id.
\* The persisted Collection is the Collection so changed.
C33_SharedIdActsOnAll ==
    [][ /\ \A id \in ListIds(mounted), name \in NewTexts :
              UpdateToDoList(mounted, id, name) =>
                  /\ Len(theLists') = Len(theLists)
                  /\ \A i \in Carrying(theLists, id) :
                        /\ theLists'[i].name = name
                        /\ theLists'[i].lastRenamed = toJSON(now)
                  /\ persisted' = theLists'
        /\ \A id \in ListIds(mounted) :
              ToggleToDoList(mounted, id) =>
                  /\ Len(theLists') = Len(theLists)
                  /\ \A i \in Carrying(theLists, id) :
                        theLists'[i].done = NotDone(theLists[i])
                  /\ persisted' = theLists'
        /\ \A id \in ListIds(mounted) :
              DeleteToDoList(mounted, id) =>
                  /\ Carrying(theLists', id) = {}
                  /\ Len(theLists') =
                        Len(theLists) - Cardinality(Carrying(theLists, id))
                  /\ persisted' = theLists'
        /\ \A id \in ItemIds(mounted), text \in NewTexts :
              UpdateToDoListItem(mounted, id, text) =>
                  /\ Len(theItems') = Len(theItems)
                  /\ \A i \in Carrying(theItems, id) :
                        theItems'[i].text = text
        /\ \A id \in ItemIds(mounted) :
              ToggleToDoListItem(mounted, id) =>
                  /\ Len(theItems') = Len(theItems)
                  /\ \A i \in Carrying(theItems, id) :
                        theItems'[i].done = NotDone(theItems[i])
        /\ \A id \in ItemIds(mounted) :
              DeleteToDoListItem(mounted, id) =>
                  /\ Carrying(theItems', id) = {}
                  /\ Len(theItems') =
                        Len(theItems) - Cardinality(Carrying(theItems, id))
        /\ (Addressed /\ ItemOperation) =>
              /\ Len(persisted') = Len(persisted)
              /\ \A i \in Carrying(persisted, theStore.toDoListId) :
                    /\ persisted'[i].items = theItems'
                    /\ persisted'[i].lastUpdated = toJSON(now')
      ]_vars

\* Two Lists share their id; a toggle of the id made both done.
C33_Witness ==
    /\ Called("toggleToDoList")
    /\ Len(theLists) = 2
    /\ log[1].id = theLists[1].id
    /\ theLists[1].id = theLists[2].id
    /\ DoneIsTrue(theLists[1])
    /\ DoneIsTrue(theLists[2])
    /\ persisted = theLists

\* Two Items of a List share their id; a toggle of the id made both done.
C33_WitnessItems ==
    /\ Called("toggleToDoListItem")
    /\ Len(theItems) = 2
    /\ theItems[1].id = theItems[2].id
    /\ DoneIsTrue(theItems[1])
    /\ DoneIsTrue(theItems[2])

\* The oldest timeout is a toggle of a row whose record its Store holds no
\* more.
ToggleOfRemoved ==
    /\ timers # << >>
    /\ Head(timers).op = "toggle"
    /\ ~Carried(SequenceOf(stores[Head(timers).store]), Head(timers).id)

\* A step that removes records: a click on a delete button, or on `yes`.
Removal ==
    \/ \E i \in 1..MaxLists : ClickDelete(i)
    \/ ClickYes

\* C34: a delete or a clear leaves the pending timeouts as they are, so the
\* toggle of a removed row is still run.  That toggle matches no record:
\* the Store holds the same records after it, none with the toggled id,
\* each with the fields it had, but for lastUpdated of the Lists carrying
\* the id of a single-List Store, which becomes the current instant.  It
\* persists the Collection once and notifies once, and the view is
\* rendered from the Store.
C34_ToggleOfRemovedRow ==
    [][ /\ Removal => timers' = timers
        /\ (ToggleOfRemoved /\ Timeout) =>
              LET s == Head(timers).store
                  id == Head(timers).id
              IN  /\ Len(stores'[s].toDoLists) = Len(stores[s].toDoLists)
                  /\ \A i \in 1..Len(stores[s].toDoLists) :
                        IF /\ stores[s].kind = "list"
                           /\ stores[s].toDoLists[i].id = stores[s].toDoListId
                        THEN /\ SameBut(stores[s].toDoLists[i],
                                        stores'[s].toDoLists[i],
                                        {"lastUpdated"})
                             /\ stores'[s].toDoLists[i].lastUpdated = toJSON(now)
                        ELSE stores'[s].toDoLists[i] = stores[s].toDoLists[i]
                  /\ SequenceOf(stores'[s]) = SequenceOf(stores[s])
                  /\ ~Carried(SequenceOf(stores'[s]), id)
                  /\ ToggleCalled(log', s, id)
                  /\ Len(Events(log', "setItem")) = 1
                  /\ Len(Events(log', "changed")) = 1
                  /\ persisted' = stores'[s].toDoLists
                  /\ views'[s] = OnChanged(stores'[s], views[s],
                                           InitialPayload(stores'[s]), hash)
      ]_vars

\* The toggle of a List that was removed while its timeout was pending has
\* run: the Collection still holds a List, and none with the toggled id.
C34_Witness ==
    /\ Called("toggleToDoList")
    /\ log[1].id # NoId
    /\ Len(theLists) = 1
    /\ ~Carried(theLists, log[1].id)
    /\ Len(Events(log, "setItem")) = 1
    /\ persisted = theLists

\* The same in a single-List Store: the toggled Item is gone, and the
\* parent List has lastUpdated = the instant of the timeout.
C34_WitnessItem ==
    /\ Called("toggleToDoListItem")
    /\ Len(theItems) = 1
    /\ ~Carried(theItems, log[1].id)
    /\ toDoListOf(theStore).lastUpdated = toJSON(now)

\* Every record of `before` is in `after`, at its position, with its done
\* flipped and nothing else changed.
AllFlipped(before, after) ==
    /\ Len(after) = Len(before)
    /\ \A i \in 1..Len(before) :
          /\ SameBut(before[i], after[i], {"done"})
          /\ "done" \in DOMAIN after[i]
          /\ after[i].done = NotDone(before[i])

\* The oldest timeout is a toggle-all.
ToggleAllPending == timers # << >> /\ Head(timers).op = "toggleAll"

\* C35: a click on the toggle-all button leaves the Store as it is and sets
\* a timeout that names no record.  When the timeout is run, the done of
\* every record the Store holds then is flipped, and of no other: a record
\* created since the click is flipped to done, and a record deleted since
\* the click is not in the Store after the toggle.
C35_ToggleAllAtFiring ==
    [][ /\ ToggleAllClicked =>
              /\ stores' = stores
              /\ localStorage' = localStorage
              /\ timers' = Append(timers, [store |-> mounted,
                                           op    |-> "toggleAll",
                                           id    |-> NoId,
                                           delay |-> long])
        /\ (ToggleAllPending /\ Timeout) =>
              LET s == Head(timers).store
              IN  /\ AllFlipped(SequenceOf(stores[s]), SequenceOf(stores'[s]))
                  /\ persisted' = stores'[s].toDoLists
                  /\ (Called("createToDoList") \/ Called("createToDoListItem")) =>
                        DoneIsTrue(SequenceOf(stores'[s])
                                       [Len(SequenceOf(stores'[s]))])
                  /\ (Called("deleteToDoList") \/ Called("deleteToDoListItem")) =>
                        ~Carried(SequenceOf(stores'[s]), log[1].id)
      ]_vars

\* A toggle-all is pending, and the last call on the Store created a List:
\* the List was created since the click, and is pending, after a List that
\* is done.
C35_Witness ==
    /\ ToggleAllPending
    /\ Called("createToDoList")
    /\ Len(theLists) = 2
    /\ DoneIsTrue(theLists[1])
    /\ DoneIsFalse(theLists[2])

\* The toggle-all has run: the older List is pending, the newer one done.
C35_WitnessFired ==
    /\ Called("toggleAllToDoLists")
    /\ Len(theLists) = 2
    /\ DoneIsFalse(theLists[1])
    /\ DoneIsTrue(theLists[2])
    /\ persisted = theLists

\* The confirmation of the mounted view is up: the clear flow awaits the
\* answer.
Awaiting == ~views[mounted].confirmationHidden

\* The steps other than the answer that render the mounted view.
RenderingStep ==
    \/ Timeout
    \/ \E name \in Texts : CreateToDoList(mounted, name)
    \/ \E text \in Texts : CreateToDoListItem(mounted, text)
    \/ \E i \in 1..MaxLists : ClickDelete(i)
    \/ \E h \in Hashes : HashChange(h)

\* C36: while the confirmation is up, every render of a non-empty sequence
\* that a timeout, a create, a delete or a change of the filter brings
\* about hides the confirmation and shows the clear button if and only if
\* the sequence holds a done record; the Store's clear is not called.
C36_RenderEndsAwaiting ==
    [][ (Awaiting /\ RenderingStep /\ Len(theSequence') > 0) =>
            /\ views'[mounted].confirmationHidden
            /\ ~views'[mounted].footerHidden
            /\ ~views'[mounted].clearHidden
                  <=> Len(SelectSeq(theSequence', IsDone)) > 0
            /\ ~ClearCalled(log')
      ]_vars

\* The confirmation is up over two Lists, one of them done, while the
\* toggle of the other is pending.
C36_Witness ==
    /\ Awaiting
    /\ ~views[mounted].footerHidden
    /\ timers # << >>
    /\ Head(timers).op = "toggle"
    /\ Len(theLists) = 2
    /\ DoneIsTrue(theLists[1])
    /\ Head(timers).id = theLists[2].id

\* The clear button was clicked once in the life of the view, no List was
\* removed, and the toggle of a List has been run: the confirmation is
\* hidden and the clear button is shown.
C36_WitnessRendered ==
    /\ Called("toggleToDoList")
    /\ views[mounted].yes = 1
    /\ views[mounted].confirmationHidden
    /\ ~views[mounted].clearHidden
    /\ Len(theLists) = 2

\* C37, as claimed: whatever the fragment, render has run to its end
\* without an error: the rows shown are those of the filter, or of the full
\* sequence under any other fragment, the element the fragment selects is
\* marked, and every row carries its listeners.
C37_RenderCompletes ==
    /\ querySelectorFinds(theFilter)
    /\ views[mounted].selected = theFilter
    /\ Len(theSequence) > 0 => Len(rowsMounted) = Len(theSubsequence)
    /\ BoundOnce(theStore, views[mounted])

\* Under a fragment that selects no element the view shows a List whose
\* row has no listener, and no filter link is marked.
C37_Raised ==
    /\ hash = "#elsewhere"
    /\ Len(theLists) > 0
    /\ Len(rowsMounted) = Len(theLists)
    /\ views[mounted].selected = "none"
    /\ \A i \in 1..Len(rowsMounted) :
          /\ rowsMounted[i].select = 0
          /\ rowsMounted[i].delete = 0

\* The mounted single-List Store found no List at its construction.
Invalid == IsList(mounted) /\ theStore.ref = 0

\* C38: a create in the invalid state appends the Item to the Items in
\* memory; the notification carries them, so the view displays a row for
\* every Item and no placeholder, although the payload still has no id.
\* The persisted Collection is as it was and holds the new Item in none of
\* its Lists, and a Store constructed with the same id from localStorage
\* is invalid and empty again, with the invalid-id message.
C38_InvalidAccumulates ==
    [][ \A text \in Texts :
            (Invalid /\ CreateToDoListItem(mounted, text)) =>
                LET created == theItems'[Len(theItems')]
                    again == VanillaToDoListModel(localStorage',
                                                  theStore.toDoListId)
                IN  /\ Len(theItems') = Len(theItems) + 1
                    /\ SubSeq(theItems', 1, Len(theItems)) = theItems
                    /\ created.text = text
                    /\ log'[Len(log')].ev = "changed"
                    /\ log'[Len(log')].payload.items = theItems'
                    /\ "id" \notin DOMAIN log'[Len(log')].payload
                    /\ views'[mounted].message = "none"
                    /\ ~views'[mounted].footerHidden
                    /\ Len(views'[mounted].rows) = Len(theItems')
                    /\ views'[mounted].rows[Len(theItems')].id = created.id
                    /\ persisted' = persisted
                    /\ \A i \in 1..Len(persisted') :
                          "items" \in DOMAIN persisted'[i] =>
                              \A k \in 1..Len(persisted'[i].items) :
                                  persisted'[i].items[k] # created
                    /\ again.ref = 0
                    /\ toDoListOf(again).items = << >>
                    /\ OnChanged(again, Template, InitialPayload(again),
                                 hash).message
                          = "Invalid ID! Your entries won't be stored!"
      ]_vars

\* One Item was created in the invalid state over a Collection of two
\* Lists: the view shows its row and no message, no List holds it.
C38_Witness ==
    /\ Called("createToDoListItem")
    /\ Invalid
    /\ Len(theItems) = 1
    /\ Len(rowsMounted) = 1
    /\ rowsMounted[1].id = theItems[1].id
    /\ views[mounted].message = "none"
    /\ Len(persisted) = 2
    /\ \A i \in 1..Len(persisted) : persisted[i].items = << >>

\* The preview constructed over `storage` for each List of `displayed`, a
\* subsequence of the Collection `toDoLists`, has loaded the first List of
\* the Collection that carries the id, whole; it is headed by that List's
\* name and done, and shows the Items of the displayed List, with their
\* classes and the counts of all of them.
PreviewsShow(displayed, toDoLists, storage) ==
    \A i \in 1..Len(displayed) :
        LET id == displayed[i].id
            preview == VanillaToDoListPreview(storage, id)
            loaded == toDoListOf(VanillaToDoListPreviewModel(storage, id))
            first == CHOOSE k \in Carrying(toDoLists, id) :
                        \A j \in Carrying(toDoLists, id) : k <= j
        IN  /\ loaded = toDoLists[first]
            /\ loaded.items = displayed[i].items
            /\ ShowsAll(preview, displayed[i].items)
            /\ ("name" \in DOMAIN loaded /\ "done" \in DOMAIN loaded) =>
                  preview.heading =
                      << toDoLists[first].name,
                         IF DoneIsFalse(toDoLists[first]) THEN "pending"
                         ELSE "done" >>

\* C39: every render of the Collection view finds the Collection it is
\* given persisted: a preview constructed during the render for a row,
\* over localStorage as it is at the notification, loads the Store's List
\* of the row's id (the first one, where two Lists share the id) and shows
\* its name and done and all the Items the Store holds for the row, with
\* their done classes and counts.  The same holds for the first render and
\* for a render after a change of the filter, which read localStorage as
\* the Store's last operation left it.
C39_PreviewMatchesStore ==
    /\ [][ IsLists(mounted) =>
              \A k \in 1..Len(log') :
                  log'[k].ev = "changed" =>
                      /\ log'[k].payload = theLists'
                      /\ PreviewsShow(Displayed(log'[k].payload, theFilter),
                                      log'[k].payload, log'[k].ls)
         ]_vars
    /\ [](IsLists(mounted) =>
              PreviewsShow(Displayed(theLists, theFilter), theLists,
                           localStorage))

\* The Collection view rendered a List holding an Item after the List was
\* toggled; the preview of the List counts the Item.
C39_Witness ==
    /\ IsLists(mounted)
    /\ Called("toggleToDoList")
    /\ Len(theLists) = 1
    /\ Len(rowsMounted) = 1
    /\ DoneIsTrue(theLists[1])
    /\ Len(theLists[1].items) = 1
    /\ Len(thePreview(theLists[1].id).rows) = 1
    /\ log[3].ev = "changed"
    /\ Len(VanillaToDoListPreview(log[3].ls, theLists[1].id).rows) = 1

\* Two Lists share their id and differ in their name: the previews of both
\* rows are headed by the name of the first.
C39_WitnessShared ==
    /\ IsLists(mounted)
    /\ Len(theLists) = 2
    /\ theLists[1].id = theLists[2].id
    /\ theLists[1].name # theLists[2].name
    /\ thePreview(theLists[2].id).heading[1] = theLists[1].name

====
